---- MODULE Spec2Model ----
(***************************************************************************)
(* Model of the mbox statistics engine of google-data-analyzer:            *)
(*   src/src/mbox_analyzer.py    MboxAnalyzer (accumulation, statistics)   *)
(*   src/src/content_analyzer.py analyze_content, total content size       *)
(*   src/src/report_utils.py     format_size, merge_reports                *)
(* A Counter / dict is an insertion-ordered sequence of [key, count]       *)
(* entries; a defaultdict(list) is a function from its keys to sequences.  *)
(* A float quotient a / b is the exact fraction [num |-> a, den |-> b].    *)
(***************************************************************************)
EXTENDS Integers, Sequences, FiniteSets, TLC

VARIABLES
    pc,                 \* position of MboxAnalyzer.analyze / of the driver
    file_size,          \* self.file_size
    email_count,        \* self.email_count
    file_metadata,      \* self.report["file_metadata"]
    visited,            \* number of messages the loop has handed out
    hfrom,              \* self.report["headers"]["from"]
    hto,                \* self.report["headers"]["to"]
    hcc,                \* self.report["headers"]["cc"]
    hbcc,               \* self.report["headers"]["bcc"]
    subject_keywords,   \* self.report["headers"]["subject_keywords"]
    missing_headers,    \* self.report["headers"]["missing_headers"]
    date_distribution,  \* self.report["headers"]["date_distribution"]
    plain_text,         \* self.report["content"]["body_sizes"]["plain_text"]
    html,               \* self.report["content"]["body_sizes"]["html"]
    counts_by_type,     \* self.report["content"]["attachments"]["counts_by_type"]
    sizes_by_type,      \* self.report["content"]["attachments"]["sizes_by_type"]
    errors,             \* self.report["errors"] (the "type" of each entry)
    has_statistics,     \* "statistics" in self.report
    statistics,         \* self.report["statistics"]
    stats_error,        \* the exception calculate_statistics ended with, or ""
    creport,            \* the report dict handed to content_analyzer.analyze_content
    craised,            \* whether the last content_analyzer.analyze_content call raised
    parts_seen,         \* number of message parts handed out so far
    module_input,       \* the report_facts given to statistics.calculate_statistics
    module_stats,       \* what it returned, as <<result>>; <<>> before the call
    returned,           \* what analyze() returned, as <<value>>; <<>> while it runs
    calls,              \* the methods analyze() has called, with the message index
    seen,               \* the messages the loop of analyze() has visited, in order
    median_values,      \* the list given to statistics.calculate_median
    median_result,      \* what it returned, as <<result>>; <<>> before the call
    size_bytes,         \* the argument of report_utils.format_size
    formatted,          \* what it returned, as <<string>>; <<>> before the call
    report_list,        \* the list given to report_utils.merge_reports
    heap,               \* the "statistics" dict objects, by reference
    merged_report       \* what it returned, as <<result>>; <<>> before the call

vars == <<pc, file_size, email_count, file_metadata, visited, hfrom, hto,
          missing_headers, date_distribution, plain_text, html,
          counts_by_type, sizes_by_type, errors, has_statistics, statistics,
          stats_error, creport, craised, parts_seen, module_input,
          module_stats, hcc, hbcc, subject_keywords, returned, calls, seen,
          median_values, median_result, size_bytes, formatted, report_list,
          heap, merged_report>>

headerVars  == <<hfrom, hto, hcc, hbcc, subject_keywords, missing_headers,
                 date_distribution>>
contentVars == <<plain_text, html, counts_by_type, sizes_by_type>>
metaVars    == <<file_size, email_count, file_metadata>>
statVars    == <<has_statistics, statistics>>
caVars      == <<creport, craised>>
moduleVars  == <<module_input, module_stats>>
runVars     == <<returned, calls, seen>>
mergeVars   == <<report_list, heap, merged_report>>
pureVars    == <<median_values, median_result, size_bytes, formatted,
                 mergeVars>>

(***************************************************************************)
(* Bounds of the model.                                                    *)
(***************************************************************************)
MaxSize  == 1      \* largest payload size of one message part
MaxParts == 3      \* most message parts handed out in one run
MaxCalls == 3      \* most messages handed out in one run
MaxKeys  == 11     \* most addresses in a sender or recipient mapping
MaxCount == 2      \* largest count stored for one key of a mapping
MaxLen   == 2      \* longest list of sizes given to the statistics
MaxVal   == 2      \* largest size in such a list
MaxFile  == 4      \* largest archive file size
MaxMedianLen == 4  \* longest list given to calculate_median
MaxMedianVal == 3  \* largest number in such a list
MaxUnit  == 6      \* format_size is given sizes below 1024^(MaxUnit + 1)
MaxMessages == 2   \* most messages in the archive analyze() reads

(***************************************************************************)
(* Python building blocks.                                                 *)
(***************************************************************************)
EmptyRec == [k \in {} |-> 0]

RECURSIVE SumSeq(_)
SumSeq(s) == IF s = <<>> THEN 0 ELSE Head(s) + SumSeq(Tail(s))

Min2(a, b) == IF a < b THEN a ELSE b

\* dict / Counter as an insertion-ordered sequence of entries
Keys(c) == {c[j].key : j \in 1..Len(c)}
IndexOf(c, k) == CHOOSE j \in 1..Len(c) : c[j].key = k
Get(c, k) == IF k \in Keys(c) THEN c[IndexOf(c, k)].count ELSE 0
RECURSIVE SumCounts(_)
SumCounts(c) == IF c = <<>> THEN 0 ELSE Head(c).count + SumCounts(Tail(c))

\* counter[k] = n
CounterAdd_assign(c, k, n) ==
    IF k \in Keys(c)
    THEN [c EXCEPT ![IndexOf(c, k)].count = n]
    ELSE Append(c, [key |-> k, count |-> n])

\* counter[k] += n
CounterAdd(c, k, n) ==
    IF k \in Keys(c)
    THEN [c EXCEPT ![IndexOf(c, k)].count = @ + n]
    ELSE Append(c, [key |-> k, count |-> n])

\* defaultdict(list)[k].append(x) / .extend(xs)
ListExtend(d, k, xs) ==
    IF k \in DOMAIN d
    THEN [d EXCEPT ![k] = @ \o xs]
    ELSE d @@ (k :> xs)

\* sum(len(v) for v in d.values()) and sum(sum(v) for v in d.values())
RECURSIVE SumLens(_)
SumLens(d) ==
    IF DOMAIN d = {} THEN 0
    ELSE LET k == CHOOSE e \in DOMAIN d : TRUE
         IN  Len(d[k]) + SumLens([e \in DOMAIN d \ {k} |-> d[e]])

(***************************************************************************)
(* Messages.  A message is single-part (the message is its own only part)  *)
(* or multipart; walk() of a multipart message yields its leaf parts in    *)
(* order.  raises_at = j > 0 says that examining part j raises (payload    *)
(* decoding, header access), 0 that nothing raises.                        *)
(***************************************************************************)
ContentTypes == {"text/plain", "text/html", "application/octet-stream"}

\* (filename, Content-Disposition) of a part: neither, a disposition without
\* a filename, a filename without a disposition
Attachments ==
    {[filename |-> "", disposition |-> ""],
     [filename |-> "", disposition |-> "attachment"],
     [filename |-> "Report.PDF", disposition |-> ""]}

Parts ==
    {[content_type |-> t, size |-> n,
      filename |-> a.filename, disposition |-> a.disposition] :
        t \in ContentTypes, n \in 0..MaxSize, a \in Attachments}

\* the parts behind a raising part are never examined, so a raising message
\* is listed up to that part only.  MessagesOfLen[n]: the messages of n parts.
MessagesOfLen ==
    [n \in 0..MaxParts |->
        {[multipart |-> TRUE, parts |-> ps, raises_at |-> r] :
            ps \in [1..n -> Parts], r \in {0, n}}
        \cup
        (IF n = 1
         THEN {[multipart |-> FALSE, parts |-> <<p>>, raises_at |-> r] :
                  p \in Parts, r \in 0..1}
         ELSE {})]

\* os.path.splitext(filename)[1]
Splitext(filename) ==
    CASE filename = "Report.PDF" -> ".PDF"
      [] OTHER                   -> ""

\* str.lower()
Lower(s) ==
    CASE s = ".PDF" -> ".pdf"
      [] OTHER      -> s

\* extension or 'unknown'
OrUnknown(extension) == IF extension = "" THEN "unknown" ELSE extension

\* 'attachment' in disposition
HasAttachment(disposition) == disposition = "attachment"

\* the parts examined before the exception, and whether one is raised
Raises(message) == message.raises_at \in 1..Len(message.parts)
Examined(message) ==
    IF Raises(message) THEN SubSeq(message.parts, 1, message.raises_at - 1)
    ELSE message.parts

(***************************************************************************)
(* MboxAnalyzer.analyze_content (mbox_analyzer.py 284-356).  loc is the    *)
(* local state of one call: the two running body sizes and the attachment  *)
(* accumulators of self.report, which the call updates in place.           *)
(***************************************************************************)
\* MboxAnalyzer._get_filename_from_part: the decoded filename or ""
_get_filename_from_part(part) == part.filename

\* lines 299-315: the message is its own single part
analyze_single_part(loc, part) ==
    IF part.content_type = "text/plain"
    THEN [loc EXCEPT !.plain_text_size = @ + part.size]
    ELSE IF part.content_type = "text/html"
    THEN [loc EXCEPT !.html_size = @ + part.size]
    ELSE LET filename == _get_filename_from_part(part)
             extension == Lower(Splitext(filename))
         IN  IF filename # ""
             THEN [loc EXCEPT
                     !.counts = CounterAdd(@, OrUnknown(extension), 1),
                     !.sizes  = ListExtend(@, OrUnknown(extension), <<part.size>>)]
             ELSE loc

\* analyze_leaf_part with the size appended for non-empty payloads only
analyze_leaf_part_skip_empty(loc, part) ==
    LET body == IF part.content_type = "text/plain"
                THEN [loc EXCEPT !.plain_text_size = @ + part.size]
                ELSE IF part.content_type = "text/html"
                THEN [loc EXCEPT !.html_size = @ + part.size]
                ELSE loc
        filename  == _get_filename_from_part(part)
        extension == IF filename # "" THEN Lower(Splitext(filename)) ELSE ""
    IN  IF filename # "" \/ HasAttachment(part.disposition)
        THEN [body EXCEPT
                !.counts = CounterAdd(@, OrUnknown(extension), 1),
                !.sizes  = IF part.size > 0
                           THEN ListExtend(@, OrUnknown(extension), <<part.size>>)
                           ELSE @]
        ELSE body

\* analyze_leaf_part with the attachment check as a further elif: a text
\* part is a body part only
analyze_leaf_part_exclusive(loc, part) ==
    IF part.content_type = "text/plain"
    THEN [loc EXCEPT !.plain_text_size = @ + part.size]
    ELSE IF part.content_type = "text/html"
    THEN [loc EXCEPT !.html_size = @ + part.size]
    ELSE LET filename  == _get_filename_from_part(part)
             extension == IF filename # "" THEN Lower(Splitext(filename)) ELSE ""
         IN  IF filename # "" \/ HasAttachment(part.disposition)
             THEN [loc EXCEPT
                     !.counts = CounterAdd(@, OrUnknown(extension), 1),
                     !.sizes  = ListExtend(@, OrUnknown(extension), <<part.size>>)]
             ELSE loc

\* lines 323-341: one leaf part of a multipart message
analyze_leaf_part(loc, part) ==
    LET body == IF part.content_type = "text/plain"
                THEN [loc EXCEPT !.plain_text_size = @ + part.size]
                ELSE IF part.content_type = "text/html"
                THEN [loc EXCEPT !.html_size = @ + part.size]
                ELSE loc
        filename  == _get_filename_from_part(part)
        extension == IF filename # "" THEN Lower(Splitext(filename)) ELSE ""
    IN  IF filename # "" \/ HasAttachment(part.disposition)
        THEN [body EXCEPT
                !.counts = CounterAdd(@, OrUnknown(extension), 1),
                !.sizes  = ListExtend(@, OrUnknown(extension), <<part.size>>)]
        ELSE body

\* lines 319-341: for part in message.walk()
RECURSIVE analyze_walk(_, _)
analyze_walk(loc, parts) ==
    IF parts = <<>> THEN loc
    ELSE analyze_walk(analyze_leaf_part(loc, Head(parts)), Tail(parts))

\* the body size recorded whether or not it is 0
RecordBody_always(sizes, size) == Append(sizes, size)

\* the size compared with the last recorded one instead of 0
RecordBody_above_last(sizes, size) ==
    IF size > (IF sizes = <<>> THEN 0 ELSE sizes[Len(sizes)])
    THEN Append(sizes, size) ELSE sizes

\* lines 343-348: record the body sizes of this message
RecordBody(sizes, size) == IF size > 0 THEN Append(sizes, size) ELSE sizes

\* the whole method: the try block up to the exception, then either the
\* body sizes (no exception) or an entry of report["errors"]
content_step(acc, message) ==
    LET loc0 == [plain_text_size |-> 0, html_size |-> 0,
                 counts |-> acc.counts_by_type, sizes |-> acc.sizes_by_type]
        loc  == IF message.multipart
                THEN analyze_walk(loc0, Examined(message))
                ELSE IF Raises(message) THEN loc0
                ELSE analyze_single_part(loc0, message.parts[1])
    IN  [counts_by_type |-> loc.counts,
         sizes_by_type |-> loc.sizes,
         plain_text |-> IF Raises(message) THEN acc.plain_text
                        ELSE RecordBody(acc.plain_text, loc.plain_text_size),
         html |-> IF Raises(message) THEN acc.html
                  ELSE RecordBody(acc.html, loc.html_size),
         errors |-> IF Raises(message)
                    THEN Append(acc.errors, "content_analysis_error")
                    ELSE acc.errors]

\* the method applied to the report of the analyzer
analyze_content(message) ==
    LET after == content_step([counts_by_type |-> counts_by_type,
                               sizes_by_type |-> sizes_by_type,
                               plain_text |-> plain_text, html |-> html,
                               errors |-> errors], message)
    IN  /\ counts_by_type' = after.counts_by_type
        /\ sizes_by_type' = after.sizes_by_type
        /\ plain_text' = after.plain_text
        /\ html' = after.html
        /\ errors' = after.errors

(***************************************************************************)
(* content_analyzer.analyze_content (content_analyzer.py 25-112): the same *)
(* walk over local accumulators, merged into the report after the try      *)
(* block; an exception is re-raised before anything is merged.             *)
(***************************************************************************)
get_filename_from_part(part) == part.filename

\* lines 42-57
ca_single_part(loc, part) ==
    IF part.content_type = "text/plain"
    THEN [loc EXCEPT !.plain_text_size = @ + part.size]
    ELSE IF part.content_type = "text/html"
    THEN [loc EXCEPT !.html_size = @ + part.size]
    ELSE LET filename == get_filename_from_part(part)
             extension == Lower(Splitext(filename))
         IN  IF filename # ""
             THEN [loc EXCEPT
                     !.attachment_counts = CounterAdd(@, OrUnknown(extension), 1),
                     !.attachment_sizes  = ListExtend(@, OrUnknown(extension), <<part.size>>)]
             ELSE loc

\* lines 65-82
ca_leaf_part(loc, part) ==
    LET body == IF part.content_type = "text/plain"
                THEN [loc EXCEPT !.plain_text_size = @ + part.size]
                ELSE IF part.content_type = "text/html"
                THEN [loc EXCEPT !.html_size = @ + part.size]
                ELSE loc
        filename  == get_filename_from_part(part)
        extension == IF filename # "" THEN Lower(Splitext(filename)) ELSE ""
    IN  IF filename # "" \/ HasAttachment(part.disposition)
        THEN [body EXCEPT
                !.attachment_counts = CounterAdd(@, OrUnknown(extension), 1),
                !.attachment_sizes  = ListExtend(@, OrUnknown(extension), <<part.size>>)]
        ELSE body

\* lines 61-82
RECURSIVE ca_walk(_, _)
ca_walk(loc, parts) ==
    IF parts = <<>> THEN loc
    ELSE ca_walk(ca_leaf_part(loc, Head(parts)), Tail(parts))

\* lines 89-99: the content section created when the report has none
NewContent ==
    [plain_text |-> <<>>, html |-> <<>>,
     counts_by_type |-> <<>>, sizes_by_type |-> EmptyRec]

\* lines 108-109: for ext, count in attachment_counts.items()
RECURSIVE MergeCounts(_, _)
MergeCounts(counts, local) ==
    IF local = <<>> THEN counts
    ELSE MergeCounts(CounterAdd(counts, Head(local).key, Head(local).count),
                     Tail(local))

\* the merge with report[...][ext] = sizes in place of .extend(sizes)
RECURSIVE MergeSizes_assign(_, _)
MergeSizes_assign(sizes, local) ==
    IF DOMAIN local = {} THEN sizes
    ELSE LET k == CHOOSE e \in DOMAIN local : TRUE
         IN  MergeSizes_assign([e \in DOMAIN sizes \cup {k} |->
                                   IF e = k THEN local[k] ELSE sizes[e]],
                               [e \in DOMAIN local \ {k} |-> local[e]])

\* lines 111-112: for ext, sizes in attachment_sizes.items()
RECURSIVE MergeSizes(_, _)
MergeSizes(sizes, local) ==
    IF DOMAIN local = {} THEN sizes
    ELSE LET k == CHOOSE e \in DOMAIN local : TRUE
         IN  MergeSizes(ListExtend(sizes, k, local[k]),
                        [e \in DOMAIN local \ {k} |-> local[e]])

\* the function with the merge in a finally block: what was examined before
\* the exception is recorded
ca_analyze_content_merge_always(message) ==
    LET loc0 == [plain_text_size |-> 0, html_size |-> 0,
                 attachment_counts |-> <<>>, attachment_sizes |-> EmptyRec]
        loc  == IF message.multipart
                THEN ca_walk(loc0, Examined(message))
                ELSE IF Raises(message) THEN loc0
                ELSE ca_single_part(loc0, message.parts[1])
        content == IF "content" \in DOMAIN creport
                   THEN creport.content ELSE NewContent
    IN  /\ craised' = Raises(message)
        /\ creport' = [content |->
              [plain_text |-> RecordBody(content.plain_text, loc.plain_text_size),
               html       |-> RecordBody(content.html, loc.html_size),
               counts_by_type |->
                   MergeCounts(content.counts_by_type, loc.attachment_counts),
               sizes_by_type |->
                   MergeSizes(content.sizes_by_type, loc.attachment_sizes)]]

ca_analyze_content(message) ==
    LET loc0 == [plain_text_size |-> 0, html_size |-> 0,
                 attachment_counts |-> <<>>, attachment_sizes |-> EmptyRec]
        loc  == IF message.multipart
                THEN ca_walk(loc0, message.parts)
                ELSE ca_single_part(loc0, message.parts[1])
        content == IF "content" \in DOMAIN creport
                   THEN creport.content ELSE NewContent
    IN  IF Raises(message)
        THEN /\ craised' = TRUE
             /\ UNCHANGED creport
        ELSE /\ craised' = FALSE
             /\ creport' = [content |->
                   [plain_text |-> RecordBody(content.plain_text, loc.plain_text_size),
                    html       |-> RecordBody(content.html, loc.html_size),
                    counts_by_type |->
                        MergeCounts(content.counts_by_type, loc.attachment_counts),
                    sizes_by_type |->
                        MergeSizes(content.sizes_by_type, loc.attachment_sizes)]]

\* no call of merge_reports is under way
NoMerge ==
    /\ report_list = <<>>
    /\ heap = <<>>
    /\ merged_report = <<>>

\* no call of statistics.calculate_median, of format_size or of
\* merge_reports is under way
NoPureCall ==
    /\ median_values = <<>>
    /\ median_result = <<>>
    /\ size_bytes = <<>>
    /\ formatted = <<>>
    /\ NoMerge

(***************************************************************************)
(* State after construction (MboxAnalyzer.__init__, lines 59-93) and an    *)
(* empty report dict for content_analyzer.                                 *)
(***************************************************************************)
Init ==
    /\ pc = "start"
    /\ file_size = 0
    /\ email_count = 0
    /\ file_metadata = EmptyRec
    /\ visited = 0
    /\ hfrom = <<>>
    /\ hto = <<>>
    /\ missing_headers = <<>>
    /\ date_distribution = <<>>
    /\ plain_text = <<>>
    /\ html = <<>>
    /\ counts_by_type = <<>>
    /\ sizes_by_type = EmptyRec
    /\ errors = <<>>
    /\ has_statistics = FALSE
    /\ statistics = EmptyRec
    /\ stats_error = ""
    /\ creport = EmptyRec
    /\ craised = FALSE
    /\ parts_seen = 0
    /\ module_input = EmptyRec
    /\ module_stats = <<>>
    /\ hcc = <<>>
    /\ hbcc = <<>>
    /\ subject_keywords = <<>>
    /\ returned = <<>>
    /\ calls = <<>>
    /\ seen = <<>>
    /\ NoPureCall

(***************************************************************************)
(* SpecContent: a driver hands each message to both content analyzers,     *)
(* MboxAnalyzer.analyze_content on the analyzer's report and               *)
(* content_analyzer.analyze_content on a report that starts as {}.         *)
(***************************************************************************)
DriveContent ==
    /\ visited < MaxCalls
    /\ \E n \in 0..(MaxParts - parts_seen) :
          /\ parts_seen' = parts_seen + n
          /\ \E message \in MessagesOfLen[n] :
                /\ analyze_content(message)
                /\ ca_analyze_content(message)
    /\ visited' = visited + 1
    /\ UNCHANGED <<pc, metaVars, headerVars, statVars, stats_error, moduleVars,
                   runVars, pureVars>>

NextContent == DriveContent

SpecContent == Init /\ [][NextContent]_vars

(***************************************************************************)
(* MboxAnalyzer.calculate_statistics (mbox_analyzer.py 374-487) and        *)
(* _calculate_parsed_data_size (489-508).  The *_human siblings, which are *)
(* _format_size of the field beside them, are left out of the records.     *)
(***************************************************************************)
TopN == 10      \* most_common(10)

Frac(a, b) == [num |-> a, den |-> b]
FracEq(x, y) == x.num * y.den = y.num * x.den

\* an unstable sort: an entry goes before the placed entries of equal count
InsertDesc_unstable(sorted, e) ==
    LET p == Cardinality({j \in 1..Len(sorted) : sorted[j].count > e.count})
    IN  SubSeq(sorted, 1, p) \o <<e>> \o SubSeq(sorted, p + 1, Len(sorted))

\* sorted(items, key=count, reverse=True) is stable: an entry goes behind the
\* entries already placed whose count is at least its own
InsertDesc(sorted, e) ==
    LET p == Cardinality({j \in 1..Len(sorted) : sorted[j].count >= e.count})
    IN  SubSeq(sorted, 1, p) \o <<e>> \o SubSeq(sorted, p + 1, Len(sorted))

RECURSIVE SortDesc(_, _)
SortDesc(c, k) == IF k = 0 THEN <<>> ELSE InsertDesc(SortDesc(c, k - 1), c[k])

\* Counter.most_common() and Counter.most_common(n)
most_common_all(c) == SortDesc(c, Len(c))

\* most_common without the cut to n entries
most_common_uncut(c, n) == most_common_all(c)

most_common(c, n) ==
    LET sorted == most_common_all(c)
    IN  SubSeq(sorted, 1, Min2(n, Len(sorted)))

\* min(list) and max(list) of a non-empty list of numbers
MinSeq(sizes) == CHOOSE x \in {sizes[j] : j \in 1..Len(sizes)} :
                    \A j \in 1..Len(sizes) : x <= sizes[j]
MaxSeq(sizes) == CHOOSE x \in {sizes[j] : j \in 1..Len(sizes)} :
                    \A j \in 1..Len(sizes) : x >= sizes[j]

\* str < str: a month key "YYYY-MM" is the sequence of its character codes
RECURSIVE StrLess(_, _)
StrLess(a, b) ==
    IF b = <<>> THEN FALSE
    ELSE IF a = <<>> THEN TRUE
    ELSE IF Head(a) # Head(b) THEN Head(a) < Head(b)
    ELSE StrLess(Tail(a), Tail(b))
StrLeq(a, b) == a = b \/ StrLess(a, b)

\* min(d.keys()), max(d.keys())
MinKey(d) == CHOOSE k \in Keys(d) : \A o \in Keys(d) : StrLeq(k, o)
MaxKey(d) == CHOOSE k \in Keys(d) : \A o \in Keys(d) : StrLeq(o, k)

\* max(d.values()) and max(d.items(), key=count)[0]: the first entry, in
\* iteration order, whose count is the greatest
MaxCountOf(d) == CHOOSE n \in {d[j].count : j \in 1..Len(d)} :
                    \A j \in 1..Len(d) : n >= d[j].count
\* the last entry, in iteration order, whose count is the greatest
FirstMaxKey_last(d) ==
    LET j == CHOOSE a \in 1..Len(d) :
                /\ d[a].count = MaxCountOf(d)
                /\ \A b \in (a + 1)..Len(d) : d[b].count < MaxCountOf(d)
    IN  d[j].key

FirstMaxKey(d) ==
    LET j == CHOOSE a \in 1..Len(d) :
                /\ d[a].count = MaxCountOf(d)
                /\ \A b \in 1..(a - 1) : d[b].count < MaxCountOf(d)
    IN  d[j].key

\* lines 496-508
RECURSIVE SumValues(_)
SumValues(d) ==
    IF DOMAIN d = {} THEN 0
    ELSE LET k == CHOOSE e \in DOMAIN d : TRUE
         IN  SumSeq(d[k]) + SumValues([e \in DOMAIN d \ {k} |-> d[e]])

\* the parsed size without the html bodies
_calculate_parsed_data_size_no_html ==
    SumSeq(plain_text) + SumValues(sizes_by_type)

\* the parsed size without the attachments
_calculate_parsed_data_size_no_attachments ==
    SumSeq(plain_text) + SumSeq(html)

_calculate_parsed_data_size ==
    SumSeq(plain_text) + SumSeq(html) + SumValues(sizes_by_type)

\* content_analyzer.calculate_total_content_size, lines 261-285
calculate_total_content_size(plain_text_sizes, html_sizes, attachment_sizes) ==
    SumSeq(plain_text_sizes) + SumSeq(html_sizes) + SumValues(attachment_sizes)

\* lines 384-387, 393-396
TopList(c) ==
    LET top == most_common(c, TopN)
    IN  [j \in 1..Len(top) |-> [address |-> top[j].key, count |-> top[j].count]]

\* the record with the first size of the list taken as the least one
BodyRecord_first_as_min(sizes) ==
    [count |-> Len(sizes), total_size |-> SumSeq(sizes),
     avg_size |-> Frac(SumSeq(sizes), Len(sizes)),
     min_size |-> sizes[1], max_size |-> MaxSeq(sizes)]

\* lines 404-414, 417-427
BodyRecord(sizes) ==
    [count |-> Len(sizes), total_size |-> SumSeq(sizes),
     avg_size |-> Frac(SumSeq(sizes), Len(sizes)),
     min_size |-> MinSeq(sizes), max_size |-> MaxSeq(sizes)]

\* attachment_sizes[ext]: a defaultdict(list) adds the key it is asked for
sizes_lookup_subscript(d, ext) ==
    [sizes |-> IF ext \in DOMAIN d THEN d[ext] ELSE <<>>,
     mapping |-> IF ext \in DOMAIN d THEN d ELSE d @@ (ext :> <<>>)]

\* sizes = attachment_sizes.get(ext, []), line 442: the list found and the
\* mapping after the lookup
sizes_lookup(d, ext) ==
    [sizes |-> IF ext \in DOMAIN d THEN d[ext] ELSE <<>>, mapping |-> d]

\* sizes_by_type after the lookups of the first k entries of the loop of
\* lines 441-453
RECURSIVE SizesAfterLookups(_, _)
SizesAfterLookups(ordered, k) ==
    IF k = 0 THEN sizes_by_type
    ELSE sizes_lookup(SizesAfterLookups(ordered, k - 1), ordered[k].key).mapping

\* the entry with the percentage left as a fraction of 1
ByTypeEntry_fraction(e, total_attachments) ==
    LET sizes == IF e.key \in DOMAIN sizes_by_type
                 THEN sizes_by_type[e.key] ELSE <<>>
        total_size == IF sizes # <<>> THEN SumSeq(sizes) ELSE 0
    IN  [type |-> e.key, count |-> e.count,
         percentage |-> Frac(e.count, total_attachments),
         total_size |-> total_size,
         avg_size |-> IF e.count > 0 THEN Frac(total_size, e.count)
                      ELSE Frac(0, 1)]

\* the entry with the average taken over the number of recorded sizes
ByTypeEntry_avg_over_sizes(e, total_attachments) ==
    LET sizes == IF e.key \in DOMAIN sizes_by_type
                 THEN sizes_by_type[e.key] ELSE <<>>
        total_size == IF sizes # <<>> THEN SumSeq(sizes) ELSE 0
    IN  [type |-> e.key, count |-> e.count,
         percentage |-> Frac(e.count * 100, total_attachments),
         total_size |-> total_size,
         avg_size |-> IF sizes # <<>> THEN Frac(total_size, Len(sizes))
                      ELSE Frac(0, 1)]

\* lines 441-453
ByTypeEntry(e, total_attachments) ==
    LET sizes == IF e.key \in DOMAIN sizes_by_type
                 THEN sizes_by_type[e.key] ELSE <<>>
        total_size == IF sizes # <<>> THEN SumSeq(sizes) ELSE 0
    IN  [type |-> e.key, count |-> e.count,
         percentage |-> Frac(e.count * 100, total_attachments),
         total_size |-> total_size,
         avg_size |-> IF e.count > 0 THEN Frac(total_size, e.count)
                      ELSE Frac(0, 1)]

\* by_type in the order of the count mapping, not sorted
AttachmentRecord_unsorted ==
    LET total_attachments == SumCounts(counts_by_type)
    IN  [total_count |-> total_attachments,
         unique_types |-> Len(counts_by_type),
         by_type |-> [j \in 1..Len(counts_by_type) |->
                         ByTypeEntry(counts_by_type[j], total_attachments)]]

\* lines 433-453
AttachmentRecord ==
    LET total_attachments == SumCounts(counts_by_type)
        ordered == most_common_all(counts_by_type)
    IN  [total_count |-> total_attachments,
         unique_types |-> Len(counts_by_type),
         by_type |-> [j \in 1..Len(ordered) |->
                         ByTypeEntry(ordered[j], total_attachments)]]

\* by_type in the order of the mapping, not sorted
MissingRecord_unsorted ==
    [total_count |-> SumCounts(missing_headers),
     by_type |-> [j \in 1..Len(missing_headers) |->
                     [header |-> missing_headers[j].key,
                      count |-> missing_headers[j].count]]]

\* lines 457-461
MissingRecord ==
    LET ordered == most_common_all(missing_headers)
    IN  [total_count |-> SumCounts(missing_headers),
         by_type |-> [j \in 1..Len(ordered) |->
                         [header |-> ordered[j].key, count |-> ordered[j].count]]]

\* lines 465-472
DateRecord ==
    [first_month |-> MinKey(date_distribution),
     last_month |-> MaxKey(date_distribution),
     total_months |-> Len(date_distribution),
     busiest_month |-> FirstMaxKey(date_distribution),
     busiest_month_count |-> MaxCountOf(date_distribution)]

\* the percentage taken of the parsed size instead of the difference
SizeComparison_parsed_share ==
    LET parsed_data_size == _calculate_parsed_data_size
    IN  [original_file_size |-> file_size,
         parsed_data_size |-> parsed_data_size,
         difference |-> file_size - parsed_data_size,
         difference_percentage |->
            IF file_size > 0
            THEN Frac(parsed_data_size * 100, file_size)
            ELSE Frac(0, 1)]

\* lines 475-484
SizeComparison ==
    LET parsed_data_size == _calculate_parsed_data_size
    IN  [original_file_size |-> file_size,
         parsed_data_size |-> parsed_data_size,
         difference |-> file_size - parsed_data_size,
         difference_percentage |->
            IF file_size > 0
            THEN Frac((file_size - parsed_data_size) * 100, file_size)
            ELSE Frac(0, 1)]

\* (count / total_attachments) with total_attachments = 0, line 448
StatisticsRaises == counts_by_type # <<>> /\ SumCounts(counts_by_type) = 0

\* lines 382-388: the sender keys, present for a non-empty counter only
SenderPart_unguarded ==
    [top_senders |-> TopList(hfrom), unique_senders |-> Len(hfrom)]

SenderPart ==
    IF hfrom # <<>>
    THEN [top_senders |-> TopList(hfrom), unique_senders |-> Len(hfrom)]
    ELSE EmptyRec

\* lines 391-397
RecipientPart ==
    IF hto # <<>>
    THEN [top_recipients |-> TopList(hto), unique_recipients |-> Len(hto)]
    ELSE EmptyRec

\* size_comparison left out when the file is empty
SizeComparisonPart_nonzero_only ==
    IF file_size > 0 THEN [size_comparison |-> SizeComparison] ELSE EmptyRec

\* lines 475-484: size_comparison is always set
SizeComparisonPart == [size_comparison |-> SizeComparison]

\* the dict built in lines 376-484
Stats ==
    [email_count |-> email_count]
    @@ SenderPart
    @@ RecipientPart
    @@ (IF plain_text # <<>>
        THEN [plain_text_body |-> BodyRecord(plain_text)] ELSE EmptyRec)
    @@ (IF html # <<>>
        THEN [html_body |-> BodyRecord(html)] ELSE EmptyRec)
    @@ (IF counts_by_type # <<>>
        THEN [attachments |-> AttachmentRecord] ELSE EmptyRec)
    @@ (IF missing_headers # <<>>
        THEN [missing_headers |-> MissingRecord] ELSE EmptyRec)
    @@ (IF date_distribution # <<>>
        THEN [date_distribution |-> DateRecord] ELSE EmptyRec)
    @@ SizeComparisonPart

\* the method: self.report["statistics"] = stats, unless the division of
\* line 448 raises ZeroDivisionError before the assignment
calculate_statistics ==
    LET ordered == most_common_all(counts_by_type)
    IN  IF StatisticsRaises
        THEN /\ stats_error' = "ZeroDivisionError"
             /\ sizes_by_type' = SizesAfterLookups(ordered, 1)
             /\ UNCHANGED statVars
        ELSE /\ has_statistics' = TRUE
             /\ statistics' = Stats
             /\ sizes_by_type' = SizesAfterLookups(ordered, Len(ordered))
             /\ UNCHANGED stats_error

(***************************************************************************)
(* The standalone statistics module (imported by tests/test_statistics.py; *)
(* its source is not among the files of src/), after sections 4.1-4.8 of   *)
(* the specification.  report_facts is a nested dict; any key may be       *)
(* absent.                                                                 *)
(***************************************************************************)
GetOr(d, k, default) == IF k \in DOMAIN d THEN d[k] ELSE default

\* sorted(values)
InsertAsc(sorted, x) ==
    LET p == Cardinality({j \in 1..Len(sorted) : sorted[j] <= x})
    IN  SubSeq(sorted, 1, p) \o <<x>> \o SubSeq(sorted, p + 1, Len(sorted))
RECURSIVE SortAsc(_, _)
SortAsc(values, k) ==
    IF k = 0 THEN <<>> ELSE InsertAsc(SortAsc(values, k - 1), values[k])

\* the mean with an integer division
calculate_mean_floor(values) ==
    IF values = <<>> THEN Frac(0, 1)
    ELSE Frac(SumSeq(values) \div Len(values), 1)

\* values.sort(): the list of the caller is sorted
SortedCopy_in_place(values) ==
    [sorted_values |-> SortAsc(values, Len(values)),
     values |-> SortAsc(values, Len(values))]

\* sorted_values = sorted(values): a new list, values is left as it is
SortedCopy(values) ==
    [sorted_values |-> SortAsc(values, Len(values)), values |-> values]

\* 4.1 mean and median, 0 for empty input
calculate_mean(values) ==
    IF values = <<>> THEN Frac(0, 1) ELSE Frac(SumSeq(values), Len(values))
calculate_median(values) ==
    LET sorted == SortedCopy(values).sorted_values
        n == Len(values)
    IN  IF n = 0 THEN Frac(0, 1)
        ELSE IF n % 2 = 1 THEN Frac(sorted[(n + 1) \div 2], 1)
        ELSE Frac(sorted[n \div 2] + sorted[n \div 2 + 1], 2)

CountsOf(c) == [j \in 1..Len(c) |-> c[j].count]

\* 4.2 sender_stats / recipient_stats
sender_stats(counts) ==
    IF counts = <<>> THEN EmptyRec
    ELSE [top_senders |-> TopList(counts),
          unique_senders |-> Len(counts),
          most_frequent_sender |-> FirstMaxKey(counts),
          most_frequent_sender_count |-> MaxCountOf(counts)]

recipient_stats(counts) ==
    IF counts = <<>> THEN EmptyRec
    ELSE [top_recipients |-> TopList(counts),
          unique_recipients |-> Len(counts),
          most_frequent_recipient |-> FirstMaxKey(counts),
          most_frequent_recipient_count |-> MaxCountOf(counts)]

\* 4.3 missing_header_stats
missing_header_stats(counts) ==
    IF counts = <<>> THEN EmptyRec
    ELSE LET ordered == most_common_all(counts)
         IN  [total_count |-> SumCounts(counts),
              by_type |-> [j \in 1..Len(ordered) |->
                  [header |-> ordered[j].key, count |-> ordered[j].count]]]

\* 4.4 body_size_stats
body_size_stats(sizes) ==
    IF sizes = <<>> THEN EmptyRec
    ELSE [count |-> Len(sizes), total_size |-> SumSeq(sizes),
          avg_size |-> Frac(SumSeq(sizes), Len(sizes)),
          min_size |-> MinSeq(sizes), max_size |-> MaxSeq(sizes),
          median_size |-> calculate_median(sizes)]

\* 4.5 attachment_stats; a quotient by 0 is given as 0 (section 7)
attachment_stats(counts, sizes) ==
    IF counts = <<>> THEN EmptyRec
    ELSE LET total_count == SumCounts(counts)
             ordered == most_common_all(counts)
         IN  [total_count |-> total_count,
              unique_types |-> Len(counts),
              by_type |-> [j \in 1..Len(ordered) |->
                  LET total_size == SumSeq(GetOr(sizes, ordered[j].key, <<>>))
                  IN  [type |-> ordered[j].key,
                       count |-> ordered[j].count,
                       percentage |->
                          IF total_count = 0 THEN Frac(0, 1)
                          ELSE Frac(ordered[j].count * 100, total_count),
                       total_size |-> total_size,
                       avg_size |->
                          IF ordered[j].count = 0 THEN Frac(0, 1)
                          ELSE Frac(total_size, ordered[j].count)]]]

\* 4.6 date_distribution_stats
date_distribution_stats(distribution) ==
    IF distribution = <<>> THEN EmptyRec
    ELSE [first_month |-> MinKey(distribution),
          last_month |-> MaxKey(distribution),
          total_months |-> Len(distribution),
          busiest_month |-> FirstMaxKey(distribution),
          busiest_month_count |-> MaxCountOf(distribution),
          monthly_average |-> calculate_mean(CountsOf(distribution)),
          monthly_median |-> calculate_median(CountsOf(distribution))]

\* 4.7 size_comparison_stats and calculate_parsed_data_size
size_comparison_stats(original_size, parsed_size) ==
    [original_file_size |-> original_size,
     parsed_data_size |-> parsed_size,
     difference |-> original_size - parsed_size,
     difference_percentage |->
        IF original_size # 0
        THEN Frac((original_size - parsed_size) * 100, original_size)
        ELSE Frac(0, 1)]

calculate_parsed_data_size(body_sizes, attachment_sizes) ==
    SumSeq(GetOr(body_sizes, "plain_text", <<>>))
    + SumSeq(GetOr(body_sizes, "html", <<>>))
    + SumValues(attachment_sizes)

\* size_comparison computed whether or not a file size is given
module_size_part_always(file_metadata_, body_sizes, attachments) ==
    [size_comparison |->
        size_comparison_stats(GetOr(file_metadata_, "file_size", 0),
            calculate_parsed_data_size(body_sizes,
                GetOr(attachments, "sizes_by_type", EmptyRec)))]

\* 4.8: size_comparison is computed when file_metadata.file_size is present
module_size_part(file_metadata_, body_sizes, attachments) ==
    IF "file_size" \in DOMAIN file_metadata_
    THEN [size_comparison |->
            size_comparison_stats(file_metadata_.file_size,
                calculate_parsed_data_size(body_sizes,
                    GetOr(attachments, "sizes_by_type", EmptyRec)))]
    ELSE EmptyRec

\* 4.8 calculate_statistics(report_facts)
module_calculate_statistics(report_facts) ==
    LET file_metadata_ == GetOr(report_facts, "file_metadata", EmptyRec)
        headers  == GetOr(report_facts, "headers", EmptyRec)
        content  == GetOr(report_facts, "content", EmptyRec)
        body_sizes  == GetOr(content, "body_sizes", EmptyRec)
        attachments == GetOr(content, "attachments", EmptyRec)
        plain    == body_size_stats(GetOr(body_sizes, "plain_text", <<>>))
        html_    == body_size_stats(GetOr(body_sizes, "html", <<>>))
        attached == attachment_stats(GetOr(attachments, "counts_by_type", <<>>),
                                     GetOr(attachments, "sizes_by_type", EmptyRec))
        missing  == missing_header_stats(GetOr(headers, "missing_headers", <<>>))
        dates    == date_distribution_stats(GetOr(headers, "date_distribution", <<>>))
    IN  (IF "email_count" \in DOMAIN file_metadata_
         THEN [email_count |-> file_metadata_.email_count] ELSE EmptyRec)
        @@ sender_stats(GetOr(headers, "from", <<>>))
        @@ recipient_stats(GetOr(headers, "to", <<>>))
        @@ (IF plain # EmptyRec THEN [plain_text_body |-> plain] ELSE EmptyRec)
        @@ (IF html_ # EmptyRec THEN [html_body |-> html_] ELSE EmptyRec)
        @@ (IF attached # EmptyRec THEN [attachments |-> attached] ELSE EmptyRec)
        @@ (IF missing # EmptyRec THEN [missing_headers |-> missing] ELSE EmptyRec)
        @@ (IF dates # EmptyRec THEN [date_distribution |-> dates] ELSE EmptyRec)
        @@ module_size_part(file_metadata_, body_sizes, attachments)

(***************************************************************************)
(* SpecStats: calculate_statistics applied to accumulated facts drawn from *)
(* bounded sets.  The sets vary one dimension of the report at a time.     *)
(***************************************************************************)
\* addresses in the order in which they are first counted
SenderNames ==
    <<"s07@x.com", "s02@x.com", "s11@x.com", "s05@x.com", "s13@x.com", "s01@x.com", "s09@x.com", "s04@x.com", "s12@x.com", "s06@x.com", "s03@x.com", "s10@x.com", "s08@x.com">>
RecipientNames ==
    <<"r08@x.com", "r10@x.com", "r03@x.com", "r06@x.com", "r12@x.com", "r04@x.com", "r09@x.com", "r01@x.com", "r13@x.com", "r05@x.com", "r11@x.com", "r02@x.com", "r07@x.com">>

\* the mappings of n keys, the j-th counted key being names[j]
CountersOver(names, n) ==
    {[j \in 1..n |-> [key |-> names[j], count |-> f[j]]] :
        f \in [1..n -> 1..MaxCount]}

\* the same counts in the opposite order, over other names
Mirror(c, names) ==
    [j \in 1..Len(c) |-> [key |-> names[j], count |-> c[Len(c) + 1 - j].count]]

\* insertion-ordered mappings over a small set of keys
RECURSIVE OrderedCounters(_)
OrderedCounters(keys) ==
    {<<>>} \cup
    UNION {{Append(c, [key |-> k, count |-> n]) :
                c \in OrderedCounters(keys \ {k}), n \in 1..MaxCount} :
           k \in keys}

Exts == {".pdf", "unknown"}
MonthKeys ==
    {<<50, 48, 50, 51, 45, 49, 50>>,     \* "2023-12"
     <<50, 48, 50, 52, 45, 48, 49>>,     \* "2024-01"
     <<50, 48, 50, 52, 45, 48, 50>>}     \* "2024-02"
RequiredHeaders == {"from", "date", "subject"}

ListsOver(values) == UNION {[1..n -> values] : n \in 0..MaxLen}

\* dicts from some of the keys to lists
SizeDicts(keys, values) ==
    UNION {[ks -> ListsOver(values)] : ks \in SUBSET keys}

\* what open_mbox leaves: nothing (not opened, or the file is missing), the
\* file size alone (reading the mailbox raised), or both
MetaInputs ==
    {[file_size |-> 0, email_count |-> 0, file_metadata |-> EmptyRec]}
    \cup {[file_size |-> f, email_count |-> 0,
           file_metadata |-> [file_size |-> f]] : f \in 0..MaxFile}
    \cup {[file_size |-> f, email_count |-> n,
           file_metadata |-> [file_size |-> f, email_count |-> n]] :
              f \in 0..MaxFile, n \in 0..1}

NoFacts ==
    [file_size |-> 0, email_count |-> 0, file_metadata |-> EmptyRec,
     hfrom |-> <<>>, hto |-> <<>>, missing_headers |-> <<>>,
     date_distribution |-> <<>>, plain_text |-> <<>>, html |-> <<>>,
     counts_by_type |-> <<>>, sizes_by_type |-> EmptyRec]

\* the accumulators of the analyzer hold the given facts
ReportDict(facts) ==
    [file_metadata |-> facts.file_metadata,
     headers |-> [from |-> facts.hfrom, to |-> facts.hto,
                  missing_headers |-> facts.missing_headers,
                  date_distribution |-> facts.date_distribution],
     content |-> [body_sizes |-> [plain_text |-> facts.plain_text,
                                  html |-> facts.html],
                  attachments |-> [counts_by_type |-> facts.counts_by_type,
                                   sizes_by_type |-> facts.sizes_by_type]]]

HoldsFacts(facts) ==
    /\ module_input = ReportDict(facts)
    /\ file_size = facts.file_size
    /\ email_count = facts.email_count
    /\ file_metadata = facts.file_metadata
    /\ hfrom = facts.hfrom
    /\ hto = facts.hto
    /\ missing_headers = facts.missing_headers
    /\ date_distribution = facts.date_distribution
    /\ plain_text = facts.plain_text
    /\ html = facts.html
    /\ counts_by_type = facts.counts_by_type
    /\ sizes_by_type = facts.sizes_by_type

SenderFacts ==
    \E n \in 1..MaxKeys : \E c \in CountersOver(SenderNames, n) :
        HoldsFacts([NoFacts EXCEPT !.hfrom = c,
                                   !.hto = Mirror(c, RecipientNames)])

HeaderFacts ==
    \E m \in OrderedCounters(RequiredHeaders), d \in OrderedCounters(MonthKeys) :
        HoldsFacts([NoFacts EXCEPT !.missing_headers = m,
                                   !.date_distribution = d])

BodyFacts ==
    \E meta \in MetaInputs :
    \E p \in ListsOver(1..MaxVal), h \in ListsOver(1..MaxVal) :
    \E a \in {[counts |-> <<>>, sizes |-> EmptyRec],
              [counts |-> <<[key |-> ".pdf", count |-> 1]>>,
               sizes |-> (".pdf" :> <<MaxVal>>)]} :
        HoldsFacts([NoFacts EXCEPT !.file_size = meta.file_size,
                                   !.email_count = meta.email_count,
                                   !.file_metadata = meta.file_metadata,
                                   !.plain_text = p, !.html = h,
                                   !.counts_by_type = a.counts,
                                   !.sizes_by_type = a.sizes])

AttachmentFacts ==
    \E f \in {0, MaxFile} :
    \E b \in {<<<<>>, <<>>>>, <<<<1>>, <<>>>>, <<<<1>>, <<1>>>>} :
    \E c \in OrderedCounters(Exts), d \in SizeDicts(Exts, 0..MaxVal) :
        HoldsFacts([NoFacts EXCEPT !.file_size = f,
                                   !.file_metadata = [file_size |-> f],
                                   !.plain_text = b[1], !.html = b[2],
                                   !.counts_by_type = c,
                                   !.sizes_by_type = d])

\* a count mapping whose counts are all 0 (a report handed to
\* calculate_statistics directly; the analyzer's own counters start at 1)
ZeroCountFacts ==
    \E f \in {0, MaxFile} :
    \E c \in OrderedCounters(Exts) \ {<<>>} :
        HoldsFacts([NoFacts EXCEPT
            !.file_size = f,
            !.file_metadata = [file_size |-> f],
            !.counts_by_type =
                [j \in 1..Len(c) |-> [key |-> c[j].key, count |-> 0]]])

\* report_facts with absent keys: each leaf is absent (<<>>) or given
\* (<<value>>); a section without leaves is absent or, with keep, left empty.
\* Sizes are recorded for counted extensions only (invariant of section 3).
Opt(values) == {<<>>} \cup {<<v>> : v \in values}
Leaf(k, o) == IF o = <<>> THEN EmptyRec ELSE (k :> o[1])
Section(k, d, keep) == IF DOMAIN d = {} /\ ~keep THEN EmptyRec ELSE (k :> d)

SampleCounter == <<[key |-> "s07@x.com", count |-> 2]>>
SampleTypes   == <<[key |-> ".pdf", count |-> 1]>>

PartialFacts ==
    /\ \E keep \in BOOLEAN :
       \E ec \in Opt(0..1), fs \in Opt({0, MaxFile}) :
       \E fr \in Opt({<<>>, SampleCounter}), to \in Opt({<<>>, SampleCounter}) :
       \E pt \in Opt({<<>>, <<1>>}), ht \in Opt({<<>>, <<MaxVal>>}) :
       \E other \in Opt({<<MaxVal>>}) :
       \E ct \in Opt({<<>>, SampleTypes}) :
       \E sz \in Opt({EmptyRec} \cup
                     (IF ct = <<SampleTypes>> THEN {(".pdf" :> <<1>>)} ELSE {})) :
          module_input =
             Section("file_metadata",
                     Leaf("email_count", ec) @@ Leaf("file_size", fs), keep)
             @@ Section("headers", Leaf("from", fr) @@ Leaf("to", to), keep)
             @@ Section("content",
                   Section("body_sizes",
                           Leaf("plain_text", pt) @@ Leaf("html", ht)
                           @@ Leaf("other_format", other), keep)
                   @@ Section("attachments",
                           Leaf("counts_by_type", ct)
                           @@ Leaf("sizes_by_type", sz), keep),
                   keep)
    /\ file_size = 0
    /\ email_count = 0
    /\ file_metadata = EmptyRec
    /\ hfrom = <<>>
    /\ hto = <<>>
    /\ missing_headers = <<>>
    /\ date_distribution = <<>>
    /\ plain_text = <<>>
    /\ html = <<>>
    /\ counts_by_type = <<>>
    /\ sizes_by_type = EmptyRec

InitStats ==
    /\ pc = "stats"
    /\ \/ SenderFacts
       \/ HeaderFacts
       \/ BodyFacts
       \/ AttachmentFacts
       \/ ZeroCountFacts
       \/ PartialFacts
    /\ module_stats = <<>>
    /\ visited = 0
    /\ parts_seen = 0
    /\ errors = <<>>
    /\ has_statistics = FALSE
    /\ statistics = EmptyRec
    /\ stats_error = ""
    /\ creport = EmptyRec
    /\ craised = FALSE
    /\ hcc = <<>>
    /\ hbcc = <<>>
    /\ subject_keywords = <<>>
    /\ returned = <<>>
    /\ calls = <<>>
    /\ seen = <<>>
    /\ NoPureCall

\* analyzer.calculate_statistics(), and once more on the same report
CalculateStatistics ==
    /\ pc \in {"stats", "done"}
    /\ calculate_statistics
    /\ pc' = IF pc = "stats" THEN "done" ELSE "again"
    /\ UNCHANGED <<metaVars, headerVars, plain_text, html, counts_by_type,
                   errors, visited, parts_seen, caVars, moduleVars, runVars,
                   pureVars>>

\* statistics.calculate_statistics(report_facts)
ModuleCalculateStatistics ==
    /\ module_stats = <<>>
    /\ module_stats' = <<module_calculate_statistics(module_input)>>
    /\ UNCHANGED <<pc, metaVars, headerVars, contentVars, errors, visited,
                   parts_seen, caVars, statVars, stats_error, module_input,
                   runVars, pureVars>>

NextStats == CalculateStatistics \/ ModuleCalculateStatistics

SpecStats == InitStats /\ [][NextStats]_vars

(***************************************************************************)
(* MboxAnalyzer.analyze_headers (lines 221-283).  The headers of a message *)
(* are a record; a header is absent (<<>>) or present (<<value>>).  The    *)
(* value of an address header is the list of its tokens, a token being an  *)
(* address (a match of [\w\.-]+@[\w\.-]+) or other text; a subject is its  *)
(* reply prefix and its words; a date is unparsable or falls in a month.   *)
(***************************************************************************)
Addr(text) == [text |-> text, address |-> TRUE]
Text(text) == [text |-> text, address |-> FALSE]

\* re.findall(email_pattern, header_value), lines 172-178: the matches in
\* the order of the header, as they are written
_extract_email_addresses(header_value) ==
    LET found == SelectSeq(header_value, LAMBDA token : token.address)
    IN  [j \in 1..Len(found) |-> found[j].text]

\* word.lower() for the words of the sampled subjects
LowerWord(word) ==
    CASE word = "The"    -> "the"
      [] word = "Report" -> "report"
      [] word = "Budget" -> "budget"
      [] OTHER           -> word

\* \b[a-zA-Z]{3,}\b: "Q3" and "of" are no words of three letters
ThreeLetters(word) == word \notin {"Q3", "of"}

common_words ==
    {"the", "and", "for", "with", "this", "that", "from", "your", "have"}

\* lines 180-202: the reply prefix is cut off, the words of three or more
\* letters are lowercased, the common ones dropped
_extract_subject_keywords(subject) ==
    LET words == SelectSeq(subject.words, ThreeLetters)
        kept  == SelectSeq(words, LAMBDA w : LowerWord(w) \notin common_words)
    IN  [j \in 1..Len(kept) |-> LowerWord(kept[j])]

\* for key in keys: counter[key] += 1
RECURSIVE CountEach(_, _, _)
CountEach(c, keys, k) ==
    IF k = 0 THEN c ELSE CounterAdd(CountEach(c, keys, k - 1), keys[k], 1)

\* lines 237-262: one address counter
CountAddresses(c, header) ==
    IF header = <<>> THEN c
    ELSE LET found == _extract_email_addresses(header[1])
         IN  CountEach(c, found, Len(found))

required_headers == <<"from", "date", "subject">>

\* lines 230-233
CountMissing(c, headers) ==
    LET missing == SelectSeq(required_headers, LAMBDA h : headers[h] = <<>>)
    IN  CountEach(c, missing, Len(missing))

headers_step(acc, headers) ==
    [missing_headers |-> CountMissing(acc.missing_headers, headers),
     hfrom |-> CountAddresses(acc.hfrom, headers.from),
     hto |-> CountAddresses(acc.hto, headers.to),
     hcc |-> CountAddresses(acc.hcc, headers.cc),
     hbcc |-> CountAddresses(acc.hbcc, headers.bcc),
     subject_keywords |->
        IF headers.subject = <<>> THEN acc.subject_keywords
        ELSE LET keywords == _extract_subject_keywords(headers.subject[1])
             IN  CountEach(acc.subject_keywords, keywords, Len(keywords)),
     date_distribution |->
        IF headers.date # <<>> /\ headers.date[1].parsed
        THEN CounterAdd(acc.date_distribution, headers.date[1].year_month, 1)
        ELSE acc.date_distribution]

\* the method applied to the report of the analyzer
analyze_headers(headers) ==
    LET after == headers_step([missing_headers |-> missing_headers,
                               hfrom |-> hfrom, hto |-> hto, hcc |-> hcc,
                               hbcc |-> hbcc,
                               subject_keywords |-> subject_keywords,
                               date_distribution |-> date_distribution],
                              headers)
    IN  /\ missing_headers' = after.missing_headers
        /\ hfrom' = after.hfrom
        /\ hto' = after.hto
        /\ hcc' = after.hcc
        /\ hbcc' = after.hbcc
        /\ subject_keywords' = after.subject_keywords
        /\ date_distribution' = after.date_distribution

(***************************************************************************)
(* Spec: one run of MboxAnalyzer.analyze (lines 622-659) on an archive of  *)
(* up to MaxMessages messages: open_mbox (95-128), the loop over the       *)
(* messages, calculate_statistics, the return value.                       *)
(***************************************************************************)
NoHeaders ==
    [from |-> <<>>, to |-> <<>>, cc |-> <<>>, bcc |-> <<>>,
     subject |-> <<>>, date |-> <<>>]

HeaderSamples ==
    {NoHeaders,
     [NoHeaders EXCEPT
        !.from = <<<<Text("Ann"), Addr("ann@x.com")>>>>,
        !.to = <<<<Addr("bob@x.com"), Addr("cy@x.com")>>>>,
        !.subject = <<[prefix |-> "Re: ", words |-> <<"The", "Report">>]>>,
        !.date = <<[parsed |-> TRUE,
                    year_month |-> <<50, 48, 50, 52, 45, 48, 49>>]>>],
     [NoHeaders EXCEPT
        !.from = <<<<Addr("Ann@X.com")>>>>,
        !.cc = <<<<Addr("bob@x.com")>>>>,
        !.bcc = <<<<Addr("dee@x.com")>>>>,
        !.date = <<[parsed |-> FALSE, year_month |-> <<>>]>>],
     [NoHeaders EXCEPT
        !.from = <<<<Addr("ann@x.com")>>>>,
        !.to = <<<<>>>>,
        !.subject = <<[prefix |-> "", words |-> <<"Budget", "of", "Q3">>]>>,
        !.date = <<[parsed |-> TRUE,
                    year_month |-> <<50, 48, 50, 51, 45, 49, 50>>]>>]}

PlainPart ==
    [content_type |-> "text/plain", size |-> 1, filename |-> "",
     disposition |-> ""]
HtmlPart ==
    [content_type |-> "text/html", size |-> 1, filename |-> "",
     disposition |-> ""]
FilePart ==
    [content_type |-> "application/octet-stream", size |-> 1,
     filename |-> "Report.PDF", disposition |-> ""]

ContentSamples ==
    {[multipart |-> FALSE, parts |-> <<PlainPart>>, raises_at |-> 0],
     [multipart |-> TRUE, parts |-> <<HtmlPart, FilePart>>, raises_at |-> 0],
     [multipart |-> TRUE, parts |-> <<FilePart, PlainPart>>, raises_at |-> 2],
     [multipart |-> TRUE, parts |-> <<PlainPart, PlainPart>>, raises_at |-> 0],
     [multipart |-> TRUE, parts |-> <<>>, raises_at |-> 0]}

\* self.open_mbox(), and "return False" of line 630 when it fails
OpenMbox ==
    /\ pc = "start"
    /\ calls' = Append(calls, <<"open_mbox">>)
    /\ \/ \* the file does not exist
          /\ errors' = Append(errors, "file_access_error")
          /\ returned' = <<FALSE>>
          /\ pc' = "returned"
          /\ UNCHANGED metaVars
       \/ \* the file exists, reading the mailbox raises
          \E f \in 0..MaxFile :
             /\ file_size' = f
             /\ file_metadata' = [file_size |-> f]
             /\ errors' = Append(errors, "file_access_error")
             /\ returned' = <<FALSE>>
             /\ pc' = "returned"
             /\ UNCHANGED email_count
       \/ \E f \in 0..MaxFile, n \in 0..MaxMessages :
             /\ file_size' = f
             /\ email_count' = n
             /\ file_metadata' = [file_size |-> f, email_count |-> n]
             /\ pc' = "loop"
             /\ UNCHANGED <<errors, returned>>
    /\ UNCHANGED <<headerVars, contentVars, statVars, stats_error, visited,
                   parts_seen, caVars, moduleVars, pureVars, seen>>

\* the loop stops before the last message
LoopExhausted_early == visited + 1 >= email_count

\* the for loop of line 636 has handed out every message
LoopExhausted == visited = email_count

\* one turn of the loop, lines 636-644
VisitMessage ==
    /\ pc = "loop"
    /\ ~LoopExhausted
    /\ \E headers \in HeaderSamples, message \in ContentSamples :
          /\ analyze_headers(headers)
          /\ analyze_content(message)
          /\ parts_seen' = parts_seen + Len(message.parts)
          /\ seen' = Append(seen, [headers |-> headers, content |-> message])
    /\ calls' = calls \o <<<<"analyze_headers", visited>>,
                            <<"analyze_content", visited>>>>
    /\ visited' = visited + 1
    /\ UNCHANGED <<pc, metaVars, statVars, stats_error, caVars, moduleVars,
                   returned, pureVars>>

\* reading the next message raises: the except clause of lines 653-659
LoopRaises ==
    /\ pc = "loop"
    /\ ~LoopExhausted
    /\ errors' = Append(errors, "analysis_error")
    /\ returned' = <<FALSE>>
    /\ pc' = "returned"
    /\ UNCHANGED <<metaVars, headerVars, contentVars, statVars, stats_error,
                   visited, parts_seen, caVars, moduleVars, calls, pureVars,
                   seen>>

\* lines 646-651: calculate_statistics and "return True", or the except
\* clause when it raises
FinishAnalysis ==
    /\ pc = "loop"
    /\ LoopExhausted
    /\ calls' = Append(calls, <<"calculate_statistics">>)
    /\ calculate_statistics
    /\ IF StatisticsRaises
       THEN /\ errors' = Append(errors, "analysis_error")
            /\ returned' = <<FALSE>>
       ELSE /\ returned' = <<TRUE>>
            /\ UNCHANGED errors
    /\ pc' = "returned"
    /\ UNCHANGED <<metaVars, headerVars, plain_text, html, counts_by_type,
                   visited, parts_seen, caVars, moduleVars, pureVars, seen>>

Next == OpenMbox \/ VisitMessage \/ LoopRaises \/ FinishAnalysis

Spec == Init /\ [][Next]_vars

(***************************************************************************)
(* SpecCalls: a driver hands sampled messages, one per call, to both       *)
(* content analyzers and keeps the messages handed over in seen.           *)
(***************************************************************************)
NamedPlainPart ==
    [content_type |-> "text/plain", size |-> 1, filename |-> "Report.PDF",
     disposition |-> ""]
AttachedHtmlPart ==
    [content_type |-> "text/html", size |-> 1, filename |-> "",
     disposition |-> "attachment"]
AttachedPart ==
    [content_type |-> "application/octet-stream", size |-> 1,
     filename |-> "", disposition |-> "attachment"]

CallSamples ==
    {[multipart |-> FALSE, parts |-> <<NamedPlainPart>>, raises_at |-> 0],
     [multipart |-> FALSE, parts |-> <<FilePart>>, raises_at |-> 0],
     [multipart |-> FALSE, parts |-> <<AttachedPart>>, raises_at |-> 0],
     [multipart |-> FALSE, parts |-> <<HtmlPart>>, raises_at |-> 1],
     [multipart |-> TRUE, parts |-> <<NamedPlainPart, AttachedHtmlPart>>,
      raises_at |-> 0],
     [multipart |-> TRUE, parts |-> <<PlainPart, HtmlPart>>, raises_at |-> 0],
     [multipart |-> TRUE, parts |-> <<FilePart, AttachedPart>>, raises_at |-> 0],
     [multipart |-> TRUE, parts |-> <<FilePart, PlainPart>>, raises_at |-> 2]}

DriveCall ==
    /\ visited < MaxCalls
    /\ \E message \in CallSamples :
          /\ analyze_content(message)
          /\ ca_analyze_content(message)
          /\ seen' = Append(seen, [headers |-> NoHeaders, content |-> message])
    /\ visited' = visited + 1
    /\ UNCHANGED <<pc, metaVars, headerVars, statVars, stats_error, moduleVars,
                   returned, calls, parts_seen, pureVars>>

NextCalls == DriveCall

SpecCalls == Init /\ [][NextCalls]_vars

(***************************************************************************)
(* SpecMedian: statistics.calculate_median applied to a list of numbers in *)
(* any order.                                                              *)
(***************************************************************************)
MedianInputs == UNION {[1..n -> 0..MaxMedianVal] : n \in 0..MaxMedianLen}

\* an analyzer that is not running
Idle ==
    /\ file_size = 0
    /\ email_count = 0
    /\ file_metadata = EmptyRec
    /\ visited = 0
    /\ hfrom = <<>>
    /\ hto = <<>>
    /\ hcc = <<>>
    /\ hbcc = <<>>
    /\ subject_keywords = <<>>
    /\ missing_headers = <<>>
    /\ date_distribution = <<>>
    /\ plain_text = <<>>
    /\ html = <<>>
    /\ counts_by_type = <<>>
    /\ sizes_by_type = EmptyRec
    /\ errors = <<>>
    /\ has_statistics = FALSE
    /\ statistics = EmptyRec
    /\ stats_error = ""
    /\ creport = EmptyRec
    /\ craised = FALSE
    /\ parts_seen = 0
    /\ module_input = EmptyRec
    /\ module_stats = <<>>
    /\ returned = <<>>
    /\ calls = <<>>
    /\ seen = <<>>

InitMedian ==
    /\ pc = "median"
    /\ Idle
    /\ median_values \in MedianInputs
    /\ median_result = <<>>
    /\ size_bytes = <<>>
    /\ formatted = <<>>
    /\ NoMerge

\* result = calculate_median(values)
CalculateMedian ==
    /\ pc = "median"
    /\ median_result' = <<calculate_median(median_values)>>
    /\ median_values' = SortedCopy(median_values).values
    /\ pc' = "done"
    /\ UNCHANGED <<metaVars, headerVars, contentVars, errors, visited,
                   parts_seen, caVars, statVars, stats_error, moduleVars,
                   runVars, size_bytes, formatted, mergeVars>>

NextMedian == CalculateMedian

SpecMedian == InitMedian /\ [][NextMedian]_vars

(***************************************************************************)
(* report_utils.format_size (lines 65-79; MboxAnalyzer._format_size and    *)
(* content_analyzer.format_size have the same body).  A size is            *)
(* [sign, digits]: sign * the number whose base-1024 digits, least         *)
(* significant first, are digits; after s divisions by 1024.0 the float    *)
(* is that number / 1024^s, which is exact for the sizes drawn below (at   *)
(* most 30 significant bits).                                              *)
(***************************************************************************)
Units == <<"B", "KB", "MB", "GB", "TB">>

\* size_bytes <= 1024.0 in place of size_bytes < 1024.0
Below1024_inclusive(size, shift) ==
    \/ size.sign < 0
    \/ \A j \in (shift + 2)..Len(size.digits) : size.digits[j] = 0
    \/ /\ Len(size.digits) >= shift + 2
       /\ size.digits[shift + 2] = 1
       /\ \A j \in 1..Len(size.digits) : j # shift + 2 => size.digits[j] = 0

\* size_bytes < 1024.0, line 76
Below1024(size, shift) ==
    \/ size.sign < 0
    \/ \A j \in (shift + 2)..Len(size.digits) : size.digits[j] = 0

\* the integer part of |size| / 1024^shift
RECURSIVE WholeFrom(_, _)
WholeFrom(digits, j) ==
    IF j > Len(digits) THEN 0 ELSE digits[j] + 1024 * WholeFrom(digits, j + 1)
WholePart(size, shift) == WholeFrom(size.digits, shift + 1)

\* 100 * (the digits 1..k), as carry * 1024^k + the number with digits out
RECURSIVE Times100(_, _)
Times100(digits, k) ==
    IF k = 0 THEN [carry |-> 0, out |-> <<>>]
    ELSE LET p == Times100(digits, k - 1)
             t == digits[k] * 100 + p.carry
         IN  [carry |-> t \div 1024, out |-> Append(p.out, t % 1024)]

\* the fractional part of |size| / 1024^shift in hundredths, rounded to the
\* nearest, a tie to the even hundredth (the ".2f" conversion of a float)
Hundredths(size, shift) ==
    LET p == Times100(size.digits, shift)
        top == IF shift = 0 THEN 0 ELSE p.out[shift]
        rest == \E j \in 1..(shift - 1) : p.out[j] # 0
        up == \/ top > 512
              \/ top = 512 /\ rest
              \/ top = 512 /\ ~rest /\ p.carry % 2 = 1
    IN  IF up THEN p.carry + 1 ELSE p.carry

TwoDigits(c) == ToString(c \div 10) \o ToString(c % 10)

\* f"{size_bytes:.2f} {unit}", lines 77 and 79
Format2f(size, shift, unit) ==
    LET cents == Hundredths(size, shift)
        whole == WholePart(size, shift) + cents \div 100
    IN  (IF size.sign < 0 THEN "-" ELSE "")
        \o ToString(whole) \o "." \o TwoDigits(cents % 100) \o " " \o unit

\* the loop of lines 75-78 from the unit units[1] on, then line 79
RECURSIVE format_loop(_, _, _)
format_loop(size, shift, units) ==
    IF units = <<>> THEN Format2f(size, shift, "PB")
    ELSE IF Below1024(size, shift) THEN Format2f(size, shift, Head(units))
    ELSE format_loop(size, shift + 1, Tail(units))

format_size(size) == format_loop(size, 0, Units)

(***************************************************************************)
(* SpecFormat: format_size applied to byte counts of every unit: a leading *)
(* base-1024 digit, the next digit and one unit of the digit after it.     *)
(***************************************************************************)
LeadDigits == {1, 2, 999, 1023}
NextDigits == {0, 5, 128, 512, 1019, 1023}

\* the sizes lead * 1024^k + next * 1024^(k-1) + low * 1024^(k-2)
SizesOfUnit(k) ==
    IF k = 0 THEN {<<a>> : a \in LeadDigits}
    ELSE IF k = 1 THEN {<<b, a>> : b \in NextDigits, a \in LeadDigits}
    ELSE {[j \in 1..(k - 2) |-> 0] \o <<c, b, a>> :
             c \in 0..1, b \in NextDigits, a \in LeadDigits}

SizeInputs ==
    {[sign |-> 1, digits |-> <<0>>]}
    \cup {[sign |-> 1, digits |-> ds] :
             ds \in UNION {SizesOfUnit(k) : k \in 0..MaxUnit}}
    \cup {[sign |-> -1, digits |-> ds] :
             ds \in UNION {SizesOfUnit(k) : k \in 0..2}}

InitFormat ==
    /\ pc = "format"
    /\ Idle
    /\ median_values = <<>>
    /\ median_result = <<>>
    /\ \E size \in SizeInputs : size_bytes = <<size>>
    /\ formatted = <<>>
    /\ NoMerge

\* formatted = format_size(size_bytes)
FormatSize ==
    /\ pc = "format"
    /\ formatted' = <<format_size(size_bytes[1])>>
    /\ pc' = "done"
    /\ UNCHANGED <<metaVars, headerVars, contentVars, errors, visited,
                   parts_seen, caVars, statVars, stats_error, moduleVars,
                   runVars, median_values, median_result, size_bytes,
                   mergeVars>>

NextFormat == FormatSize

SpecFormat == InitFormat /\ [][NextFormat]_vars

(***************************************************************************)
(* report_utils.merge_reports (lines 298-347).  A report of the list is    *)
(* [file_path, statistics]: the file_path of its file_metadata as <<path>> *)
(* (<<>> when the report has none) and a reference into heap to its        *)
(* "statistics" dict as <<ref>> (<<>> when it has none).  A value of a     *)
(* statistics dict is tagged with whether it is an int or a float.         *)
(***************************************************************************)
MaxReports == 3
MaxStat == 1

Number(n) == [number |-> TRUE, value |-> n]
Other == [number |-> FALSE, value |-> 0]        \* a list, a dict, a string

\* report.get("file_metadata", {}).get("file_path", f"Report {i+1}"), for
\* the report at position i of 1..len
source_file(report, i) ==
    IF report.file_path # <<>> THEN report.file_path[1]
    ELSE "Report " \o ToString(i)

\* lines 337-341: the numeric values of source added to the numeric values
\* target holds under the same key
add_statistics(target, source) ==
    [key \in DOMAIN target |->
        IF key \in DOMAIN source
              /\ source[key].number /\ target[key].number
        THEN Number(target[key].value + source[key].value)
        ELSE target[key]]

\* lines 320-341: the heap after the loop has gone through the first i
\* reports; merged is the dict merged_report
RECURSIVE merge_loop(_, _, _, _)
merge_loop(h, merged, reports, i) ==
    IF i <= 1 THEN h
    ELSE LET prev == merge_loop(h, merged, reports, i - 1)
             report == reports[i]
         IN  IF report.statistics # <<>> /\ merged.statistics # <<>>
             THEN [prev EXCEPT ![merged.statistics[1]] =
                      add_statistics(@, prev[report.statistics[1]])]
             ELSE prev

\* the function: the returned dict and the heap it leaves
merge_reports(reports, h) ==
    IF reports = <<>> THEN [result |-> EmptyRec, heap |-> h]
    ELSE LET \* report_list[0].copy(): a new dict with the values of the old
             \* one, the reference to the statistics dict among them
             copy == [file_path |-> reports[1].file_path,
                      statistics |-> reports[1].statistics]
             merged == copy @@
                [merged_report |->
                    [source_count |-> Len(reports),
                     source_files |-> [i \in 1..Len(reports) |->
                                          source_file(reports[i], i)]],
                 generated_at |-> "now", merged_at |-> "now"]
         IN  [result |-> merged,
              heap |-> merge_loop(h, merged, reports, Len(reports))]

(***************************************************************************)
(* SpecMerge: merge_reports applied to a list of up to MaxReports reports, *)
(* each with a statistics dict of its own or with none.                    *)
(***************************************************************************)
StatDicts ==
    {e @@ t : e \in {EmptyRec} \cup {[email_count |-> Number(n)] : n \in 1..MaxStat},
              t \in {EmptyRec, [top_senders |-> Other],
                     [top_senders |-> Number(1)]}}

ReportInputs ==
    {[file_path |-> p, statistics |-> s] :
        p \in {<<>>, <<"a.mbox">>}, s \in {<<>>} \cup {<<d>> : d \in StatDicts}}

InitMerge ==
    /\ pc = "merge"
    /\ Idle
    /\ median_values = <<>>
    /\ median_result = <<>>
    /\ size_bytes = <<>>
    /\ formatted = <<>>
    /\ \E n \in 0..MaxReports :
       \E rs \in [1..n -> ReportInputs] :
          /\ report_list = [i \in 1..n |->
                [file_path |-> rs[i].file_path,
                 statistics |-> IF rs[i].statistics = <<>> THEN <<>> ELSE <<i>>]]
          /\ heap = [i \in 1..n |->
                IF rs[i].statistics = <<>> THEN EmptyRec ELSE rs[i].statistics[1]]
    /\ merged_report = <<>>

\* merged = merge_reports(report_list)
MergeReports ==
    /\ pc = "merge"
    /\ LET out == merge_reports(report_list, heap)
       IN  /\ merged_report' = <<out.result>>
           /\ heap' = out.heap
    /\ pc' = "done"
    /\ UNCHANGED <<metaVars, headerVars, contentVars, errors, visited,
                   parts_seen, caVars, statVars, stats_error, moduleVars,
                   runVars, median_values, median_result, size_bytes,
                   formatted, report_list>>

NextMerge == MergeReports

SpecMerge == InitMerge /\ [][NextMerge]_vars

(***************************************************************************)
(* C1.  After any sequence of analyze_content calls on an initially empty  *)
(* report, failing calls included, the attachment counts add up to the     *)
(* number of recorded attachment sizes, in the analyzer's report and in    *)
(* the report content_analyzer fills.                                      *)
(***************************************************************************)
C1_CountsMatchSizes ==
    /\ SumCounts(counts_by_type) = SumLens(sizes_by_type)
    /\ "content" \in DOMAIN creport =>
          SumCounts(creport.content.counts_by_type)
              = SumLens(creport.content.sizes_by_type)

\* a call failed part-way after an attachment of that message was recorded,
\* and content_analyzer has recorded attachments of another message
C1_Witness ==
    /\ errors # <<>>
    /\ SumCounts(counts_by_type) >= 2
    /\ "content" \in DOMAIN creport
    /\ SumCounts(creport.content.counts_by_type) >= 1
    /\ SumCounts(creport.content.counts_by_type) < SumCounts(counts_by_type)

(***************************************************************************)
(* Vocabulary of the claims about the statistics.                          *)
(***************************************************************************)
RECURSIVE TotalUpTo(_, _)
TotalUpTo(s, k) == IF k = 0 THEN 0 ELSE TotalUpTo(s, k - 1) + s[k]
Total(s) == TotalUpTo(s, Len(s))

\* the sizes recorded for one extension, nothing when it is not a key
SizesOf(d, ext) == IF ext \in DOMAIN d THEN d[ext] ELSE <<>>
TotalOfSizes(d) == Total(SizesOf(d, ".pdf")) + Total(SizesOf(d, "unknown"))

RECURSIVE TotalCountUpTo(_, _)
TotalCountUpTo(c, k) ==
    IF k = 0 THEN 0 ELSE TotalCountUpTo(c, k - 1) + c[k].count

FracAdd(x, y) == Frac(x.num * y.den + y.num * x.den, x.den * y.den)
RECURSIVE PercentagesUpTo(_, _)
PercentagesUpTo(by_type, k) ==
    IF k = 0 THEN Frac(0, 1)
    ELSE FracAdd(PercentagesUpTo(by_type, k - 1), by_type[k].percentage)

\* top is a summary of the count mapping c as C2 describes it
IsTopOf(top, c) ==
    /\ Len(top) = IF Len(c) < 10 THEN Len(c) ELSE 10
    /\ \A j \in 1..Len(top) :
          \E i \in 1..Len(c) :
             c[i].key = top[j].address /\ c[i].count = top[j].count
    /\ \A j, k \in 1..Len(top) :
          /\ j < k => top[j].count >= top[k].count
          /\ j # k => top[j].address # top[k].address
    /\ \A i \in 1..Len(c) :
          (\A j \in 1..Len(top) : top[j].address # c[i].key)
             => \A j \in 1..Len(top) : top[j].count >= c[i].count

(***************************************************************************)
(* C2.  For a non-empty sender mapping the statistics hold unique_senders  *)
(* = number of addresses and top_senders = min(10, that number) entries of *)
(* the mapping, in non-increasing order of count, no address left out      *)
(* having a greater count than one listed; the same for the recipients.    *)
(***************************************************************************)
C2_TopSenders ==
    has_statistics =>
       /\ hfrom # <<>> =>
             /\ {"top_senders", "unique_senders"} \subseteq DOMAIN statistics
             /\ statistics.unique_senders = Cardinality(Keys(hfrom))
             /\ IsTopOf(statistics.top_senders, hfrom)
       /\ hto # <<>> =>
             /\ {"top_recipients", "unique_recipients"} \subseteq DOMAIN statistics
             /\ statistics.unique_recipients = Cardinality(Keys(hto))
             /\ IsTopOf(statistics.top_recipients, hto)

\* more than ten senders, one of the less frequent ones is left out
C2_Witness ==
    /\ has_statistics
    /\ Len(hfrom) > 10
    /\ Len(statistics.top_senders) = 10
    /\ \E i \in 1..Len(hfrom) :
          /\ hfrom[i].count = 2
          /\ \E j \in 1..10 : statistics.top_senders[j].address = hfrom[i].key
    /\ \E i \in 1..Len(hfrom) :
          /\ hfrom[i].count = 1
          /\ \A j \in 1..10 : statistics.top_senders[j].address # hfrom[i].key

(***************************************************************************)
(* C3.  For a non-empty sender mapping the summary holds                   *)
(* most_frequent_sender and most_frequent_sender_count, they are the first *)
(* entry of top_senders, the count is the greatest of the mapping, and of  *)
(* addresses with equal counts the one counted first comes first in        *)
(* top_senders and is the one reported.  (The two most_frequent keys are   *)
(* written by statistics.sender_stats; top_senders by both                 *)
(* implementations.)                                                       *)
(***************************************************************************)
\* equal counts keep the order of first counting; the first entry is a
\* greatest one
TiesKeepOrder(top, c) ==
    /\ \A j, k \in 1..Len(top) :
          (j < k /\ top[j].count = top[k].count)
             => IndexOf(c, top[j].address) < IndexOf(c, top[k].address)
    /\ \A i \in 1..Len(c) :
          /\ c[i].count <= top[1].count
          /\ c[i].count = top[1].count => IndexOf(c, top[1].address) <= i

ModuleSenders == GetOr(GetOr(module_input, "headers", EmptyRec), "from", <<>>)

EmptySections ==
    /\ email_count = 0
    /\ hfrom = <<>> /\ hto = <<>>
    /\ plain_text = <<>> /\ html = <<>>
    /\ counts_by_type = <<>> /\ sizes_by_type = EmptyRec

C4_EmptySectionsNoKeys ==
    (has_statistics /\ EmptySections) =>
       /\ "email_count" \in DOMAIN statistics
       /\ statistics.email_count = 0
       /\ DOMAIN statistics \cap {"top_senders", "top_recipients",
             "plain_text_body", "html_body", "attachments"} = {}

\* an opened archive of no messages, statistics computed
C4_Witness ==
    /\ has_statistics
    /\ EmptySections
    /\ "email_count" \in DOMAIN file_metadata
    /\ file_metadata.email_count = 0

(***************************************************************************)
(* C5.  statistics.calculate_statistics returns {} for the empty input,    *)
(* exactly {email_count: n} for an input holding only                      *)
(* file_metadata.email_count = n (n = 0 included; no size_comparison), and *)
(* {} only when the input holds no data at all.                            *)
(***************************************************************************)
NoData(input) ==
    LET meta     == GetOr(input, "file_metadata", EmptyRec)
        headers  == GetOr(input, "headers", EmptyRec)
        content  == GetOr(input, "content", EmptyRec)
        bodies   == GetOr(content, "body_sizes", EmptyRec)
        attached == GetOr(content, "attachments", EmptyRec)
        sizes    == GetOr(attached, "sizes_by_type", EmptyRec)
    IN  /\ DOMAIN meta \cap {"email_count", "file_size"} = {}
        /\ \A k \in DOMAIN headers : headers[k] = <<>>
        /\ GetOr(bodies, "plain_text", <<>>) = <<>>
        /\ GetOr(bodies, "html", <<>>) = <<>>
        /\ GetOr(attached, "counts_by_type", <<>>) = <<>>
        /\ \A k \in DOMAIN sizes : sizes[k] = <<>>

C5_EmptyVersusZero ==
    module_stats # <<>> =>
       LET r == module_stats[1]
       IN  /\ module_input = EmptyRec => r = EmptyRec
           /\ \A n \in 0..1 :
                 module_input = [file_metadata |-> [email_count |-> n]]
                    => r = [email_count |-> n]
           /\ r = EmptyRec => NoData(module_input)

\* an input of email_count = 0 alone has been summarised
C5_Witness ==
    /\ module_input = [file_metadata |-> [email_count |-> 0]]
    /\ module_stats = <<[email_count |-> 0]>>

(***************************************************************************)
(* C6.  Whenever file_metadata holds a file_size, 0 included, the          *)
(* statistics hold size_comparison with that original_file_size and with   *)
(* parsed_data_size the total of the body and attachment sizes present.    *)
(***************************************************************************)
ParsedTotal == Total(plain_text) + Total(html) + TotalOfSizes(sizes_by_type)

C6_SizeComparisonPresent ==
    (has_statistics /\ "file_size" \in DOMAIN file_metadata) =>
       /\ "size_comparison" \in DOMAIN statistics
       /\ statistics.size_comparison.original_file_size = file_metadata.file_size
       /\ statistics.size_comparison.parsed_data_size = ParsedTotal

\* a file size of 0 with parsed data
C6_Witness ==
    /\ has_statistics
    /\ "file_size" \in DOMAIN file_metadata
    /\ file_metadata.file_size = 0
    /\ statistics.size_comparison.parsed_data_size > 0

(***************************************************************************)
(* C7.  The size comparison is a populated record with difference =        *)
(* original - parsed, difference_percentage * original = difference * 100  *)
(* when original # 0, and difference_percentage = 0 when original = 0.     *)
(***************************************************************************)
C7_SizeComparisonValues ==
    has_statistics =>
       LET sc == statistics.size_comparison
           pct == sc.difference_percentage
       IN  /\ DOMAIN sc # {}
           /\ sc.original_file_size >= 0 /\ sc.parsed_data_size >= 0
           /\ sc.difference = sc.original_file_size - sc.parsed_data_size
           /\ pct.den # 0
           /\ sc.original_file_size # 0 =>
                 pct.num * sc.original_file_size = sc.difference * 100 * pct.den
           /\ sc.original_file_size = 0 => pct.num = 0

\* the parsed data is larger than a non-empty file: a negative difference
C7_Witness ==
    /\ has_statistics
    /\ statistics.size_comparison.original_file_size > 0
    /\ statistics.size_comparison.difference < 0
    /\ statistics.size_comparison.difference_percentage.num < 0

(***************************************************************************)
(* C8.  The parsed data size is the sum of the plain_text sizes, the html  *)
(* sizes and every list of the attachment sizes mapping; an empty list, an *)
(* empty mapping, a missing plain_text or html key and an unrelated key    *)
(* add nothing.  (Keys can be missing only in the arguments of             *)
(* statistics.calculate_parsed_data_size.)                                 *)
(***************************************************************************)
ModuleBodies ==
    GetOr(GetOr(module_input, "content", EmptyRec), "body_sizes", EmptyRec)
ModuleSizes ==
    GetOr(GetOr(GetOr(module_input, "content", EmptyRec),
                "attachments", EmptyRec), "sizes_by_type", EmptyRec)

C8_ParsedDataSize ==
    /\ DOMAIN sizes_by_type \subseteq {".pdf", "unknown"}
    /\ DOMAIN ModuleSizes \subseteq {".pdf", "unknown"}
    /\ _calculate_parsed_data_size = ParsedTotal
    /\ calculate_total_content_size(plain_text, html, sizes_by_type) = ParsedTotal
    /\ has_statistics =>
          statistics.size_comparison.parsed_data_size = ParsedTotal
    /\ calculate_parsed_data_size(ModuleBodies, ModuleSizes)
          = Total(IF "plain_text" \in DOMAIN ModuleBodies
                  THEN ModuleBodies.plain_text ELSE <<>>)
            + Total(IF "html" \in DOMAIN ModuleBodies
                    THEN ModuleBodies.html ELSE <<>>)
            + TotalOfSizes(ModuleSizes)

\* all three kinds of sizes contribute, one attachment list is empty
C8_Witness ==
    /\ has_statistics
    /\ plain_text # <<>> /\ html # <<>>
    /\ \E k \in DOMAIN sizes_by_type : sizes_by_type[k] = <<>>
    /\ \E k \in DOMAIN sizes_by_type : Total(sizes_by_type[k]) > 0
    /\ statistics.size_comparison.parsed_data_size
          > Total(plain_text) + Total(html)

(***************************************************************************)
(* C9.  For a non-empty attachment count mapping with positive counts:     *)
(* total_count is the sum of the counts, unique_types the number of        *)
(* extensions, by_type has one entry per extension, its counts add up to   *)
(* total_count, and percentage * total_count = count * 100, so that each   *)
(* percentage lies in 0..100 and they add up to 100.                       *)
(***************************************************************************)
C9_AttachmentSummary ==
    (has_statistics /\ counts_by_type # <<>>) =>
       /\ "attachments" \in DOMAIN statistics
       /\ LET a == statistics.attachments
              n == Len(a.by_type)
          IN  /\ a.total_count = Get(counts_by_type, ".pdf")
                                  + Get(counts_by_type, "unknown")
              /\ a.unique_types = Cardinality(Keys(counts_by_type))
              /\ n = a.unique_types
              /\ \A k \in Keys(counts_by_type) :
                    \E j \in 1..n :
                       /\ a.by_type[j].type = k
                       /\ a.by_type[j].count = Get(counts_by_type, k)
                       /\ \A i \in 1..n : a.by_type[i].type = k => i = j
              /\ TotalCountUpTo(a.by_type, n) = a.total_count
              /\ \A j \in 1..n :
                    LET pct == a.by_type[j].percentage
                    IN  /\ pct.den > 0
                        /\ pct.num * a.total_count
                              = a.by_type[j].count * 100 * pct.den
                        /\ 0 <= pct.num /\ pct.num <= 100 * pct.den
              /\ FracEq(PercentagesUpTo(a.by_type, n), Frac(100, 1))

\* two extensions with different counts
C9_Witness ==
    /\ has_statistics
    /\ Len(counts_by_type) = 2
    /\ counts_by_type[1].count < counts_by_type[2].count
    /\ statistics.attachments.total_count = 3

(***************************************************************************)
(* C10.  An extension counted but without a key in the size mapping gets   *)
(* total_size = 0 and avg_size = 0; every other entry has total_size = the *)
(* sum of its size list and avg_size * count = total_size.                 *)
(***************************************************************************)
C10_AttachmentSizes ==
    (has_statistics /\ counts_by_type # <<>>) =>
       \A j \in 1..Len(statistics.attachments.by_type) :
          LET e == statistics.attachments.by_type[j]
          IN  /\ e.avg_size.den # 0
              /\ e.type \notin DOMAIN sizes_by_type =>
                    e.total_size = 0 /\ e.avg_size.num = 0
              /\ e.type \in DOMAIN sizes_by_type =>
                    /\ e.total_size = Total(sizes_by_type[e.type])
                    /\ e.avg_size.num * e.count = e.total_size * e.avg_size.den

\* one extension without sizes, one whose sizes are fewer than its count
C10_Witness ==
    /\ has_statistics
    /\ \E j \in 1..Len(counts_by_type) :
          counts_by_type[j].key \notin DOMAIN sizes_by_type
    /\ \E j \in 1..Len(counts_by_type) :
          /\ counts_by_type[j].key \in DOMAIN sizes_by_type
          /\ Len(sizes_by_type[counts_by_type[j].key]) < counts_by_type[j].count
          /\ Total(sizes_by_type[counts_by_type[j].key]) > 0

(***************************************************************************)
(* C11.  For a non-empty list of body sizes the summary has count = the    *)
(* length of the list, total_size = its sum, avg_size * count =            *)
(* total_size, min_size and max_size the least and the greatest element;   *)
(* for an empty list there is no summary.  The summary that                *)
(* statistics.body_size_stats builds has, in addition, median_size equal   *)
(* to the median of the list, with min_size <= median_size <= max_size.    *)
(* (The record MboxAnalyzer.calculate_statistics builds has no             *)
(* median_size key.)                                                       *)
(***************************************************************************)
Elements(s) == {s[j] : j \in 1..Len(s)}
FracLeq(x, y) == x.num * y.den <= y.num * x.den

\* the k-th smallest element of s
Kth(s, k) ==
    CHOOSE x \in Elements(s) :
        /\ Cardinality({j \in 1..Len(s) : s[j] < x}) < k
        /\ Cardinality({j \in 1..Len(s) : s[j] <= x}) >= k

MedianOf(s) ==
    IF s = <<>> THEN Frac(0, 1)
    ELSE IF Len(s) % 2 = 1 THEN Frac(Kth(s, (Len(s) + 1) \div 2), 1)
    ELSE Frac(Kth(s, Len(s) \div 2) + Kth(s, Len(s) \div 2 + 1), 2)

BodyFieldsOk(r, s) ==
    /\ r.count = Len(s)
    /\ r.total_size = Total(s)
    /\ r.avg_size.num * r.count = r.total_size * r.avg_size.den
    /\ r.min_size \in Elements(s) /\ \A x \in Elements(s) : r.min_size <= x
    /\ r.max_size \in Elements(s) /\ \A x \in Elements(s) : r.max_size >= x

BodyMedianOk(r, s) ==
    /\ FracEq(r.median_size, MedianOf(s))
    /\ FracLeq(Frac(r.min_size, 1), r.median_size)
    /\ FracLeq(r.median_size, Frac(r.max_size, 1))

Digit(c) == c - 48
\* the month a key "YYYY-MM" names, counted in months
MonthNumber(k) ==
    (Digit(k[1]) * 1000 + Digit(k[2]) * 100 + Digit(k[3]) * 10 + Digit(k[4])) * 12
    + Digit(k[6]) * 10 + Digit(k[7])

DateFieldsOk(r, d) ==
    /\ r.first_month \in Keys(d)
    /\ \A k \in Keys(d) : MonthNumber(r.first_month) <= MonthNumber(k)
    /\ \A k \in Keys(d) : StrLeq(r.first_month, k)
    /\ r.last_month \in Keys(d)
    /\ \A k \in Keys(d) : MonthNumber(r.last_month) >= MonthNumber(k)
    /\ \A k \in Keys(d) : StrLeq(k, r.last_month)
    /\ r.total_months = Cardinality(Keys(d))
    /\ \A j \in 1..Len(d) : d[j].count <= r.busiest_month_count
    /\ \E j \in 1..Len(d) :
          /\ d[j].key = r.busiest_month
          /\ d[j].count = r.busiest_month_count
          /\ \A i \in 1..(j - 1) : d[i].count < r.busiest_month_count

C12_DateDistribution ==
    /\ has_statistics /\ date_distribution # <<>> =>
          /\ "date_distribution" \in DOMAIN statistics
          /\ DateFieldsOk(statistics.date_distribution, date_distribution)
    /\ module_stats # <<>> /\ date_distribution # <<>> =>
          /\ "date_distribution" \in DOMAIN module_stats[1]
          /\ DateFieldsOk(module_stats[1].date_distribution, date_distribution)

\* three months counted out of order, the last two sharing the greatest count
C12_Witness ==
    /\ has_statistics
    /\ Len(date_distribution) = 3
    /\ date_distribution[1].count < date_distribution[2].count
    /\ date_distribution[2].count = date_distribution[3].count
    /\ statistics.date_distribution.busiest_month = date_distribution[2].key
    /\ statistics.date_distribution.first_month = date_distribution[3].key
    /\ statistics.date_distribution.last_month = date_distribution[1].key

(***************************************************************************)
(* C13.  For a non-empty date distribution the summary of                  *)
(* statistics.date_distribution_stats contains monthly_average and         *)
(* monthly_median: monthly_average * total_months is the sum of the        *)
(* monthly counts and monthly_median is the median of the monthly counts.  *)
(***************************************************************************)
MonthlyCounts == [j \in 1..Len(date_distribution) |-> date_distribution[j].count]

MissingFieldsOk(r, c) ==
    /\ r.total_count = TotalCountUpTo(c, Len(c))
    /\ Len(r.by_type) = Len(c)
    /\ \A i \in 1..Len(c) :
          \E j \in 1..Len(r.by_type) :
             r.by_type[j] = [header |-> c[i].key, count |-> c[i].count]
    /\ \A j, k \in 1..Len(r.by_type) :
          j < k =>
             /\ r.by_type[j].count >= r.by_type[k].count
             /\ r.by_type[j].count = r.by_type[k].count
                   => IndexOf(c, r.by_type[j].header)
                         < IndexOf(c, r.by_type[k].header)

C14_MissingHeaders ==
    /\ has_statistics =>
          IF missing_headers = <<>>
          THEN "missing_headers" \notin DOMAIN statistics
          ELSE /\ "missing_headers" \in DOMAIN statistics
               /\ MissingFieldsOk(statistics.missing_headers, missing_headers)
    /\ module_stats # <<>> =>
          IF missing_headers = <<>>
          THEN "missing_headers" \notin DOMAIN module_stats[1]
          ELSE /\ "missing_headers" \in DOMAIN module_stats[1]
               /\ MissingFieldsOk(module_stats[1].missing_headers,
                                  missing_headers)

\* three headers, the first counted one missing least often and the other
\* two equally often
C14_Witness ==
    /\ has_statistics
    /\ Len(missing_headers) = 3
    /\ missing_headers[1].count < missing_headers[2].count
    /\ missing_headers[2].count = missing_headers[3].count
    /\ statistics.missing_headers.by_type[1].header = missing_headers[2].key
    /\ statistics.missing_headers.by_type[3].header = missing_headers[1].key

(***************************************************************************)
(* C15.  calculate_median of a list in any order is the middle element of  *)
(* the sorted list when the length is odd, the average of the two middle   *)
(* elements when it is even, and 0 for the empty list; the call leaves the *)
(* list it was given in its original order.                                *)
(***************************************************************************)
MedianIsRight ==
    median_result # <<>> =>
       LET n == Len(median_values)
           m == median_result[1]
       IN  /\ n = 0 => m.num = 0
           /\ n % 2 = 1 => m.num = m.den * Kth(median_values, (n + 1) \div 2)
           /\ (n > 0 /\ n % 2 = 0) =>
                 2 * m.num = m.den * (Kth(median_values, n \div 2)
                                      + Kth(median_values, n \div 2 + 1))

C15_Median == [](MedianIsRight) /\ [][median_values' = median_values]_vars

\* four numbers given in descending order, with a median that is no integer
C15_Witness ==
    /\ median_result # <<>>
    /\ Len(median_values) = 4
    /\ \A j \in 1..3 : median_values[j] > median_values[j + 1]
    /\ median_result[1].num % median_result[1].den # 0

(***************************************************************************)
(* C16.  For a byte count n >= 0, format_size uses the unit of index k in  *)
(* (B, KB, MB, GB, TB, PB), k the least index with n / 1024^k < 1024, or 5 *)
(* (PB) when there is none up to TB, and prints n / 1024^k with two        *)
(* decimals (the nearest hundredth), a space and the unit; 0 gives         *)
(* "0.00 B", 1023 "1023.00 B", 1024 "1.00 KB" and 1024^4 "1.00 TB".        *)
(***************************************************************************)
UnitNames == <<"B", "KB", "MB", "GB", "TB", "PB">>

\* the digit of 1024^pos
DigitAt(digits, pos) ==
    IF pos >= 0 /\ pos < Len(digits) THEN digits[pos + 1] ELSE 0

\* the least k with n / 1024^k < 1024, at most 5
UnitIndex(digits) ==
    LET small == {k \in 0..5 : \A pos \in (k + 1)..Len(digits) :
                                  DigitAt(digits, pos) = 0}
    IN  IF small = {} THEN 5
        ELSE CHOOSE k \in small : \A o \in small : k <= o

\* floor(n / 1024^k), the digits from pos on
RECURSIVE FloorScaled(_, _)
FloorScaled(digits, pos) ==
    IF pos >= Len(digits) THEN 0
    ELSE DigitAt(digits, pos) + 1024 * FloorScaled(digits, pos + 1)

\* the texts "w.cc unit" whose number is within half a hundredth of
\* n / 1024^k, for n with no digit below 1024^(k - 2)
TextsOf(digits) ==
    LET k == UnitIndex(digits)
        w == FloorScaled(digits, k)
        part == DigitAt(digits, k - 1) * 1024 + DigitAt(digits, k - 2)
        near == {e \in 0..100 :
                    /\ 2 * (e * 1048576 - 100 * part) <= 1048576
                    /\ 2 * (100 * part - e * 1048576) <= 1048576}
    IN  {ToString(w + e \div 100) \o "." \o ToString((e % 100) \div 10)
            \o ToString(e % 10) \o " " \o UnitNames[k + 1] : e \in near}

C16_FormatSize ==
    (formatted # <<>> /\ size_bytes[1].sign = 1) =>
       LET digits == size_bytes[1].digits
       IN  /\ \A pos \in 0..(UnitIndex(digits) - 3) : DigitAt(digits, pos) = 0
           /\ formatted[1] \in TextsOf(digits)
           /\ digits = <<0>> => formatted[1] = "0.00 B"
           /\ digits = <<1023>> => formatted[1] = "1023.00 B"
           /\ digits = <<0, 1>> => formatted[1] = "1.00 KB"
           /\ digits = <<0, 0, 0, 0, 1>> => formatted[1] = "1.00 TB"

\* a size of 1024^6 or more, which no unit brings below 1024
C16_Witness ==
    /\ formatted # <<>>
    /\ size_bytes[1].sign = 1
    /\ Len(size_bytes[1].digits) = 7
    /\ size_bytes[1].digits[7] = 2
    /\ formatted[1] \in TextsOf(size_bytes[1].digits)
    /\ UnitIndex(size_bytes[1].digits) = 5

(***************************************************************************)
(* C17.  For a negative byte count format_size prints the minus sign and   *)
(* then what it prints for the positive count: the sign is carried through *)
(* the divisions by 1024 (-1024 gives "-1.00 KB").                         *)
(***************************************************************************)
C17_NegativeSizes ==
    (formatted # <<>> /\ size_bytes[1].sign = -1) =>
       /\ formatted[1] \in {"-" \o text : text \in TextsOf(size_bytes[1].digits)}
       /\ size_bytes[1].digits = <<0, 1>> => formatted[1] = "-1.00 KB"
       /\ size_bytes[1].digits = <<0, 0, 1>> => formatted[1] = "-1.00 MB"

(***************************************************************************)
(* C18.  A call of calculate_statistics leaves every accumulator as it     *)
(* was (the header counters, the date distribution, the body size lists,   *)
(* the attachment counts and the size lists with their key set), and a     *)
(* second call on the same facts yields the statistics of the first.       *)
(***************************************************************************)
Accumulators == <<hfrom, hto, hcc, hbcc, subject_keywords, missing_headers,
                  date_distribution, plain_text, html, counts_by_type,
                  sizes_by_type>>

C18_Idempotent ==
    [][(pc \in {"stats", "done"} /\ pc' # pc) =>
          /\ Accumulators' = Accumulators
          /\ DOMAIN sizes_by_type' = DOMAIN sizes_by_type
          /\ pc = "done" =>
                /\ has_statistics' = has_statistics
                /\ statistics' = statistics
                /\ stats_error' = stats_error]_vars

\* after the second call, on a report with bodies and with a counted
\* extension that has no size list
C18_Witness ==
    /\ pc = "again"
    /\ has_statistics
    /\ plain_text # <<>>
    /\ \E j \in 1..Len(counts_by_type) :
          counts_by_type[j].key \notin DOMAIN sizes_by_type
    /\ "attachments" \in DOMAIN statistics

CallsOf(call) == {j \in 1..Len(calls) : calls[j] = call}
StatisticsRan == CallsOf(<<"calculate_statistics">>) # {}
Failed(kind) == \E j \in 1..Len(errors) : errors[j] = kind

AnalyzeOrder ==
    /\ calls = <<>> =>
          /\ \A j \in 1..Len(Accumulators) :
                Accumulators[j] = IF j = Len(Accumulators) THEN EmptyRec ELSE <<>>
          /\ ~has_statistics
    /\ \A i \in 0..MaxMessages + 1 :
          /\ Cardinality(CallsOf(<<"analyze_headers", i>>))
                = IF i < visited THEN 1 ELSE 0
          /\ Cardinality(CallsOf(<<"analyze_content", i>>))
                = IF i < visited THEN 1 ELSE 0
    /\ Cardinality(CallsOf(<<"calculate_statistics">>)) <= 1
    /\ StatisticsRan =>
          /\ calls[Len(calls)] = <<"calculate_statistics">>
          /\ visited = email_count
    /\ has_statistics => StatisticsRan
    /\ returned = <<TRUE>> => has_statistics /\ visited = email_count
    /\ (Failed("file_access_error") \/ Failed("analysis_error")) =>
          /\ ~StatisticsRan
          /\ returned = <<FALSE>>
          /\ ~has_statistics

C20_AnalyzePass ==
    /\ [](AnalyzeOrder)
    /\ [][StatisticsRan => Accumulators' = Accumulators]_vars

\* a run that returned True after two messages, one of which raised in
\* analyze_content
C20_Witness ==
    /\ returned = <<TRUE>>
    /\ visited = 2
    /\ has_statistics
    /\ hfrom # <<>>
    /\ Failed("content_analysis_error")
    /\ Len(calls) = 6

(***************************************************************************)
(* C21.  Visiting the messages of an archive in another order gives the    *)
(* same count for every key of every counter (from, to, cc, bcc, subject   *)
(* keywords, missing headers, date distribution, attachment counts) and    *)
(* the same multiset of sizes in every body and attachment size list, and  *)
(* so the same unique counts, totals, minima, maxima, medians and parsed   *)
(* data size.                                                              *)
(***************************************************************************)
EmptyFacts ==
    [missing_headers |-> <<>>, hfrom |-> <<>>, hto |-> <<>>, hcc |-> <<>>,
     hbcc |-> <<>>, subject_keywords |-> <<>>, date_distribution |-> <<>>,
     counts_by_type |-> <<>>, sizes_by_type |-> EmptyRec,
     plain_text |-> <<>>, html |-> <<>>, errors |-> <<>>]

CurrentFacts ==
    [missing_headers |-> missing_headers, hfrom |-> hfrom, hto |-> hto,
     hcc |-> hcc, hbcc |-> hbcc, subject_keywords |-> subject_keywords,
     date_distribution |-> date_distribution,
     counts_by_type |-> counts_by_type, sizes_by_type |-> sizes_by_type,
     plain_text |-> plain_text, html |-> html, errors |-> errors]

\* the facts after visiting the first k of the messages, from an empty report
RECURSIVE FactsAfter(_, _)
FactsAfter(messages, k) ==
    IF k = 0 THEN EmptyFacts
    ELSE LET facts == FactsAfter(messages, k - 1)
         IN  headers_step(facts, messages[k].headers)
             @@ content_step(facts, messages[k].content)

Orders(n) == {p \in [1..n -> 1..n] : \A i, j \in 1..n : i # j => p[i] # p[j]}

AsMap(c) == [k \in Keys(c) |-> Get(c, k)]
AsBag(s) == [x \in Elements(s) |-> Cardinality({j \in 1..Len(s) : s[j] = x})]

CounterNames ==
    {"missing_headers", "hfrom", "hto", "hcc", "hbcc", "subject_keywords",
     "date_distribution", "counts_by_type"}

SameFacts(a, b) ==
    /\ \A name \in CounterNames : AsMap(a[name]) = AsMap(b[name])
    /\ AsBag(a.plain_text) = AsBag(b.plain_text)
    /\ AsBag(a.html) = AsBag(b.html)
    /\ DOMAIN a.sizes_by_type = DOMAIN b.sizes_by_type
    /\ \A ext \in DOMAIN a.sizes_by_type :
          AsBag(a.sizes_by_type[ext]) = AsBag(b.sizes_by_type[ext])

SameSummaries(a, b) ==
    /\ \A name \in CounterNames :
          /\ Len(a[name]) = Len(b[name])
          /\ TotalCountUpTo(a[name], Len(a[name]))
                = TotalCountUpTo(b[name], Len(b[name]))
    /\ \A name \in {"plain_text", "html"} :
          /\ Len(a[name]) = Len(b[name])
          /\ Total(a[name]) = Total(b[name])
          /\ MedianOf(a[name]) = MedianOf(b[name])
          /\ a[name] # <<>> =>
                /\ MinSeq(a[name]) = MinSeq(b[name])
                /\ MaxSeq(a[name]) = MaxSeq(b[name])
    /\ calculate_total_content_size(a.plain_text, a.html, a.sizes_by_type)
          = calculate_total_content_size(b.plain_text, b.html, b.sizes_by_type)

C21_OrderIndependent ==
    \A p \in Orders(Len(seen)) :
       LET other == FactsAfter([j \in 1..Len(seen) |-> seen[p[j]]], Len(seen))
       IN  SameFacts(CurrentFacts, other) /\ SameSummaries(CurrentFacts, other)

\* two messages whose opposite order leaves the sender counter and the
\* plain-text list in another order
C21_Witness ==
    /\ Len(seen) = 2
    /\ LET other == FactsAfter(<<seen[2], seen[1]>>, 2)
       IN  /\ other.hfrom # hfrom
           /\ other.plain_text # plain_text
           /\ AsMap(other.hfrom) = AsMap(hfrom)

(***************************************************************************)
(* C22.  In every state of an archive pass each element of the plain_text  *)
(* and of the html body size list is strictly positive; a visited message  *)
(* appends at most one entry to each list, the sum of the sizes of its     *)
(* parts of that content type; so neither list is longer than the number   *)
(* of messages visited.                                                    *)
(***************************************************************************)
RECURSIVE PartsSum(_, _, _)
PartsSum(parts, type, k) ==
    IF k = 0 THEN 0
    ELSE PartsSum(parts, type, k - 1)
         + (IF parts[k].content_type = type THEN parts[k].size ELSE 0)

\* the entries the first k visited messages give: one per message that
\* was examined to its end and has a positive sum
RECURSIVE BodiesUpTo(_, _)
BodiesUpTo(type, k) ==
    IF k = 0 THEN <<>>
    ELSE LET content == seen[k].content
             sum == PartsSum(content.parts, type, Len(content.parts))
         IN  IF content.raises_at = 0 /\ sum > 0
             THEN Append(BodiesUpTo(type, k - 1), sum)
             ELSE BodiesUpTo(type, k - 1)

BodyLists ==
    /\ Len(seen) = visited
    /\ plain_text = BodiesUpTo("text/plain", Len(seen))
    /\ html = BodiesUpTo("text/html", Len(seen))
    /\ \A x \in Elements(plain_text) \cup Elements(html) : x > 0
    /\ Len(plain_text) <= visited
    /\ Len(html) <= visited

C22_BodySizeLists ==
    /\ [](BodyLists)
    /\ [][/\ Len(plain_text') <= Len(plain_text) + 1
          /\ Len(html') <= Len(html) + 1
          /\ SubSeq(plain_text', 1, Len(plain_text)) = plain_text
          /\ SubSeq(html', 1, Len(html)) = html]_vars

\* two messages: one with two plain-text parts, which give one entry, and
\* one that gives none
C22_Witness ==
    /\ visited = 2
    /\ plain_text = <<2>>
    /\ \E k \in 1..2 : Len(seen[k].content.parts) = 2
                         /\ seen[k].content.parts[1].content_type = "text/plain"
                         /\ seen[k].content.parts[2].content_type = "text/plain"

(***************************************************************************)
(* C23.  In every state of an archive pass every key of the sender         *)
(* counter is a lowercase address, so that two From addresses that differ  *)
(* only in letter case are counted under one key.                          *)
(***************************************************************************)
\* str.lower() on the sampled addresses
LowerAddress(address) ==
    IF address = "Ann@X.com" THEN "ann@x.com" ELSE address

C23_LowercaseSenders ==
    \A j \in 1..Len(hfrom) :
       /\ hfrom[j].key = LowerAddress(hfrom[j].key)
       /\ \A i \in 1..Len(hfrom) :
             LowerAddress(hfrom[i].key) = LowerAddress(hfrom[j].key) => i = j

(***************************************************************************)
(* C24.  The by_type list of the attachment summary is in non-increasing   *)
(* order of count, and extensions with equal counts stand in the order in  *)
(* which they were first counted.                                          *)
(***************************************************************************)
C24_ByTypeOrder ==
    (has_statistics /\ counts_by_type # <<>>) =>
       LET by_type == statistics.attachments.by_type
       IN  \A j, k \in 1..Len(by_type) :
              j < k =>
                 /\ by_type[j].count >= by_type[k].count
                 /\ by_type[j].count = by_type[k].count =>
                       IndexOf(counts_by_type, by_type[j].type)
                          < IndexOf(counts_by_type, by_type[k].type)

\* "unknown" was counted first and ".pdf" more often: the sort moves ".pdf"
\* to the front
C24_Witness ==
    /\ has_statistics
    /\ Len(counts_by_type) = 2
    /\ counts_by_type[1].key = "unknown"
    /\ counts_by_type[1].count < counts_by_type[2].count
    /\ statistics.attachments.by_type[1].type = ".pdf"
    /\ statistics.attachments.by_type[2].type = "unknown"

(***************************************************************************)
(* C25.  In every state that analyze_headers and analyze_content reach     *)
(* from the empty report, every key of every counter (from, to, cc, bcc,   *)
(* subject_keywords, missing_headers, date_distribution, counts_by_type)   *)
(* has a count of at least 1; no count ever decreases; and every key of    *)
(* sizes_by_type maps to a non-empty list and is a key of counts_by_type   *)
(* whose count is the length of that list.                                 *)
(***************************************************************************)
CountsPositive ==
    /\ \A name \in CounterNames :
          \A j \in 1..Len(CurrentFacts[name]) : CurrentFacts[name][j].count >= 1
    /\ \A ext \in DOMAIN sizes_by_type :
          /\ sizes_by_type[ext] # <<>>
          /\ ext \in Keys(counts_by_type)
          /\ Get(counts_by_type, ext) = Len(sizes_by_type[ext])

C25_CountersGrow ==
    /\ [](CountsPositive)
    /\ [][\A name \in CounterNames :
             \A k \in Keys(CurrentFacts[name]) :
                /\ k \in Keys(CurrentFacts'[name])
                /\ Get(CurrentFacts'[name], k) >= Get(CurrentFacts[name], k)]_vars

\* the second message counted a sender, a month and an extension again
C25_Witness ==
    /\ visited = 2
    /\ \E j \in 1..Len(hfrom) : hfrom[j].count = 2
    /\ \E j \in 1..Len(date_distribution) : date_distribution[j].count = 2
    /\ \E j \in 1..Len(counts_by_type) :
          /\ counts_by_type[j].count = 2
          /\ Len(sizes_by_type[counts_by_type[j].key]) = 2
    /\ missing_headers = <<>>

(***************************************************************************)
(* C26.  In the statistics at the end of an archive pass                   *)
(* size_comparison.parsed_data_size is plain_text_body.total_size plus     *)
(* html_body.total_size plus the sum of total_size over the entries of     *)
(* attachments.by_type, each taken as 0 when its record is absent.         *)
(***************************************************************************)
RECURSIVE TotalSizeUpTo(_, _)
TotalSizeUpTo(by_type, k) ==
    IF k = 0 THEN 0 ELSE TotalSizeUpTo(by_type, k - 1) + by_type[k].total_size

BodyTotal(stats, name) ==
    IF name \in DOMAIN stats THEN stats[name].total_size ELSE 0

AttachmentTotal(stats) ==
    IF "attachments" \in DOMAIN stats
    THEN TotalSizeUpTo(stats.attachments.by_type, Len(stats.attachments.by_type))
    ELSE 0

C26_ParsedIsSumOfTotals ==
    (pc = "returned" /\ has_statistics
       /\ "size_comparison" \in DOMAIN statistics) =>
       statistics.size_comparison.parsed_data_size
          = BodyTotal(statistics, "plain_text_body")
            + BodyTotal(statistics, "html_body")
            + AttachmentTotal(statistics)

\* a pass that found plain text and an attachment but no html body
C26_Witness ==
    /\ pc = "returned"
    /\ has_statistics
    /\ "size_comparison" \in DOMAIN statistics
    /\ "plain_text_body" \in DOMAIN statistics
    /\ "html_body" \notin DOMAIN statistics
    /\ AttachmentTotal(statistics) > 0
    /\ statistics.size_comparison.parsed_data_size
          > statistics.plain_text_body.total_size

(***************************************************************************)
(* C27.  For a sequence of messages none of which raises,                  *)
(* content_analyzer.analyze_content applied message by message to a report *)
(* and MboxAnalyzer.analyze_content applied message by message to the      *)
(* analyzer's report leave equal content sections: the same plain_text and *)
(* html lists, the same counts_by_type and the same sizes_by_type lists.   *)
(***************************************************************************)
C27_SameContent ==
    (visited >= 1 /\ errors = <<>>) =>
       /\ "content" \in DOMAIN creport
       /\ creport.content.plain_text = plain_text
       /\ creport.content.html = html
       /\ creport.content.counts_by_type = counts_by_type
       /\ creport.content.sizes_by_type = sizes_by_type

\* several messages, with bodies and with two attachments of one extension
C27_Witness ==
    /\ visited >= 2
    /\ errors = <<>>
    /\ plain_text # <<>>
    /\ \E ext \in DOMAIN sizes_by_type : Len(sizes_by_type[ext]) = 2
    /\ Len(counts_by_type) = 2
    /\ "content" \in DOMAIN creport

(***************************************************************************)
(* Vocabulary of the claims about one call of analyze_content: the message *)
(* handed over by the step, and what its parts are.                        *)
(***************************************************************************)
IsText(part) == part.content_type \in {"text/plain", "text/html"}

\* the part is marked as an attachment: it has a filename or an
\* 'attachment' disposition
IsMarked(part) == part.filename # "" \/ HasAttachment(part.disposition)

\* what the spec lists as the attachments of a message
IsAttachment(message, part) ==
    IF message.multipart THEN IsMarked(part)
    ELSE ~IsText(part) /\ part.filename # ""

ExtensionOf(part) == OrUnknown(Lower(Splitext(part.filename)))

\* the sizes of the attachments of the message with that extension
SizesFor(message, ext) ==
    LET found == SelectSeq(message.parts,
                           LAMBDA p : IsAttachment(message, p)
                                         /\ ExtensionOf(p) = ext)
    IN  [j \in 1..Len(found) |-> found[j].size]

\* the entry the message adds to a list of body sizes
BodyEntry(message, type) ==
    LET sum == PartsSum(message.parts, type, Len(message.parts))
    IN  IF sum > 0 THEN <<sum>> ELSE <<>>

\* the bytes of the text parts that are also marked as attachments
RECURSIVE MarkedTextBytes(_, _)
MarkedTextBytes(parts, k) ==
    IF k = 0 THEN 0
    ELSE MarkedTextBytes(parts, k - 1)
         + (IF IsText(parts[k]) /\ IsMarked(parts[k]) THEN parts[k].size ELSE 0)

\* the bytes of the parts that are a text part or marked, each once
RECURSIVE RecordedBytes(_, _)
RecordedBytes(parts, k) ==
    IF k = 0 THEN 0
    ELSE RecordedBytes(parts, k - 1)
         + (IF IsText(parts[k]) \/ IsMarked(parts[k]) THEN parts[k].size ELSE 0)

(***************************************************************************)
(* C29.  In MboxAnalyzer.analyze_content the part of a single-part message *)
(* adds its size to at most one of plain-text body, html body and          *)
(* attachments; in a multipart message a text/plain or text/html leaf part *)
(* with a filename or an 'attachment' disposition adds its size to the     *)
(* body size of the message and to the attachment size list as well, so    *)
(* that the parsed data size counts those bytes twice.                     *)
(***************************************************************************)
C29_CountedTwice ==
    [][seen' # seen =>
         LET message == seen'[Len(seen')].content
             parts == message.parts
             plain == Total(plain_text') - Total(plain_text)
             htmls == Total(html') - Total(html)
             files == TotalOfSizes(sizes_by_type') - TotalOfSizes(sizes_by_type)
             parsed == _calculate_parsed_data_size' - _calculate_parsed_data_size
         IN  ~Raises(message) =>
                /\ ~message.multipart =>
                      /\ Cardinality({n \in {"plain", "html", "files"} :
                             CASE n = "plain" -> plain # 0
                               [] n = "html"  -> htmls # 0
                               [] OTHER       -> files # 0}) <= 1
                      /\ plain + htmls + files \in {0, parts[1].size}
                      /\ parsed = plain + htmls + files
                /\ message.multipart =>
                      /\ plain = PartsSum(parts, "text/plain", Len(parts))
                      /\ htmls = PartsSum(parts, "text/html", Len(parts))
                      /\ \A j \in 1..Len(parts) :
                            (IsText(parts[j]) /\ IsMarked(parts[j])) =>
                               Len(SizesOf(sizes_by_type', ExtensionOf(parts[j])))
                                  > Len(SizesOf(sizes_by_type, ExtensionOf(parts[j])))
                      /\ parsed = RecordedBytes(parts, Len(parts))
                                    + MarkedTextBytes(parts, Len(parts))]_vars

\* one multipart message of a named plain-text part and an html part with
\* an 'attachment' disposition, one byte each: four bytes of parsed data
C29_Witness ==
    /\ visited = 1
    /\ Len(seen) = 1
    /\ seen[1].content.multipart
    /\ MarkedTextBytes(seen[1].content.parts, 2) = 2
    /\ plain_text = <<1>>
    /\ html = <<1>>
    /\ sizes_by_type[".pdf"] = <<1>>
    /\ sizes_by_type["unknown"] = <<1>>
    /\ _calculate_parsed_data_size = 4

(***************************************************************************)
(* C30.  When content_analyzer.analyze_content raises while it examines a  *)
(* message, the report handed to it is left exactly as it was before the   *)
(* call; a call that returns adds all the facts of the message: its body   *)
(* sizes, its attachment counts and its attachment sizes.                  *)
(***************************************************************************)
C30_RaiseLeavesReport ==
    [][seen' # seen =>
         LET message == seen'[Len(seen')].content
             old == IF "content" \in DOMAIN creport
                    THEN creport.content ELSE NewContent
         IN  IF Raises(message)
             THEN craised' /\ creport' = creport
             ELSE /\ ~craised'
                  /\ "content" \in DOMAIN creport'
                  /\ LET new == creport'.content
                     IN  /\ new.plain_text
                              = old.plain_text \o BodyEntry(message, "text/plain")
                         /\ new.html = old.html \o BodyEntry(message, "text/html")
                         /\ Keys(new.counts_by_type) \subseteq {".pdf", "unknown"}
                         /\ DOMAIN new.sizes_by_type = Keys(new.counts_by_type)
                         /\ \A ext \in {".pdf", "unknown"} :
                               /\ Get(new.counts_by_type, ext)
                                     = Get(old.counts_by_type, ext)
                                       + Len(SizesFor(message, ext))
                               /\ SizesOf(new.sizes_by_type, ext)
                                     = SizesOf(old.sizes_by_type, ext)
                                       \o SizesFor(message, ext)]_vars

\* the last call raised at the second part, after an attachment: the
\* analyzer has recorded that attachment, the report of content_analyzer
\* holds the facts of the call before and nothing else
C30_Witness ==
    /\ craised
    /\ Len(seen) = 2
    /\ seen[2].content.raises_at = 2
    /\ IsMarked(seen[2].content.parts[1])
    /\ "content" \in DOMAIN creport
    /\ creport.content.plain_text = <<1>>
    /\ creport.content.counts_by_type = <<>>
    /\ counts_by_type # <<>>

(***************************************************************************)
(* C28.  merge_reports works on a copy of the first report and modifies no *)
(* report of report_list: after merging two or more reports that each have *)
(* numeric statistics, the statistics of every input report, the first     *)
(* included, hold their original values, the merged report holds the       *)
(* key-wise sums, and source_count and the length of source_files are the  *)
(* number of input reports.                                                *)
(***************************************************************************)
NumericStatistics(h, report) ==
    /\ report.statistics # <<>>
    /\ LET stats == h[report.statistics[1]]
       IN  /\ DOMAIN stats # {}
           /\ \A key \in DOMAIN stats : stats[key].number

\* the sum of the values the first i reports hold under the key
RECURSIVE SumOfKey(_, _, _, _)
SumOfKey(h, reports, key, i) ==
    IF i = 0 THEN 0
    ELSE LET stats == h[reports[i].statistics[1]]
         IN  SumOfKey(h, reports, key, i - 1)
             + (IF key \in DOMAIN stats THEN stats[key].value ELSE 0)

C28_MergeKeepsInputs ==
    [][(merged_report = <<>> /\ merged_report' # <<>>
          /\ Len(report_list) >= 2
          /\ \A i \in 1..Len(report_list) :
                NumericStatistics(heap, report_list[i])) =>
         LET merged == merged_report'[1]
             first == heap[report_list[1].statistics[1]]
         IN  /\ report_list' = report_list
             /\ \A i \in 1..Len(report_list) :
                   heap'[report_list[i].statistics[1]]
                      = heap[report_list[i].statistics[1]]
             /\ merged.merged_report.source_count = Len(report_list)
             /\ Len(merged.merged_report.source_files) = Len(report_list)
             /\ merged.statistics # <<>>
             /\ LET sums == heap'[merged.statistics[1]]
                IN  /\ DOMAIN sums = DOMAIN first
                    /\ \A key \in DOMAIN first :
                          sums[key] = Number(SumOfKey(heap, report_list, key,
                                                      Len(report_list)))]_vars
====
